---- MODULE Spec2Model ----
(***************************************************************************)
(* Model of the pandocora editors.                                         *)
(*                                                                         *)
(*   V0     archive/V0/PandocEditor.ts: the webview posts a debounced       *)
(*          'save'; the extension host converts the HTML to Markdown and   *)
(*          writes it to the TextDocument under the isUpdating flag.       *)
(*   VA.ts  archive/VA/alpha.extension.ts: the webview posts 'edit' on     *)
(*          every input; the host writes the content to the document.      *)
(*   VA.js  archive/VA/alphaEditor.js: the webview posts a debounced       *)
(*          'edit' and, on Ctrl+S, 'save', which goes to the FileBroker.   *)
(*                                                                         *)
(* The extension host is one event loop: every action below is one run of  *)
(* a handler up to its next await.  The VS Code main thread (the text      *)
(* model, the disk) answers over one ordered channel, fromMain.            *)
(***************************************************************************)
EXTENDS Integers, Sequences, FiniteSets, TLC

\* ---------------------------------------------------------------- bounds
MaxContent == 2     \* distinct contents the user can type
MaxSaves == 2       \* 'save' messages one webview posts
MaxTasks == 2       \* message handlers suspended at an await at once
MaxTimers == 2      \* timer handles of one webview
MaxExternal == 2    \* changes made to a document from outside the editor
MaxPersists == 7    \* FileBroker.saveFile calls on one document
MaxTimeMs == 11000  \* how long the clock of the timed specification runs
MaxChunks == 2      \* 'data' events of one stream of one engine process
MaxCalls == 1       \* conversion calls made on the PandocHandler
MaxInits == 1       \* initialize() calls made on the PandocHandler
MaxGets == 2        \* getInstance calls in a run
MaxPasses == 2      \* times a cleaning function is applied in a row
MaxMarkdownLen == 7 \* characters of a text given to postProcessPandocMarkdown
MaxHtmlLen == 4     \* tokens of a markup given to cleanIncomingHtml

\* ------------------------------------------------------ program constants
DebounceMs == 500            \* V0 webview: setTimeout(..., 500)
StalenessCeilingMs == 10000  \* "forces save after 10 seconds maximum"
MaxBackups == 5              \* "Only the 5 most recent backups should be kept"
TickMs == DebounceMs \div 2

Docs == {"A", "B"}
Contents == 1..MaxContent
TaskIds == 1..MaxTasks
TimerIds == 1..MaxTimers

\* ------------------------------------------------------------------ text
\* A text is <<dialect, n>>: n names what the user wrote, the dialect is
\* "html" for editable markup and "md" for canonical Markdown.
Html(n) == <<"html", n>>
Md(n) == <<"md", n>>

\* PandocHandler.convertHtmlToMarkdown: the engine turns markup into Markdown.
convertHtmlToMarkdown(html) == <<"md", html[2]>>

\* PandocHandler.convertMarkdownToHtml: the engine renders the text as HTML.
convertMarkdownToHtml(markdown) == <<"html", markdown[2]>>

VARIABLES
    editorOf,         \* the provider whose panel shows the document ("none": closed)
    docText,          \* document.getText() as the extension host sees it
    modelText,        \* the main thread's text model of the document
    savedText,        \* the document on disk
    editorInnerHTML,  \* editor.innerHTML in the webview
    timers,           \* armed setTimeout callbacks of the webview
    saveTimeout,      \* V0 webview: the saveTimeout handle (0: undefined)
    updateTimeout,    \* VA.js webview: the updateTimeout handle (0: undefined)
    toHost,           \* messages posted by the webview, not yet handled
    isUpdating,       \* PandocEditor.isUpdating
    tasks,            \* updateDocument calls suspended at an await
    fromMain,         \* main thread -> extension host, in order
    refreshes,        \* updateWebview calls awaiting the engine
    acks,             \* 'saved' messages posted to the webview, in order
    errorMessages,    \* vscode.window.showErrorMessage calls
    lastEdit,         \* content of the most recent input event
    nPosted,          \* messages the webview has posted
    nExternal,        \* outside changes made so far
    overwritten,      \* the pending edit replaced a pending edit of other content
    lastContent,      \* VA webviews: lastContent
    now,              \* the clock, in ms
    due,              \* when the armed debounce timer is due
    runStart,         \* when the pending run of edits began (-1: nothing pending)
    backups,          \* FileBroker: the backup files of a document
    clock,            \* FileBroker: the timestamp of the next backup
    broker,           \* FileBroker: the commit in progress on a document
    brokerPending,    \* FileBroker: the queued save request
    made,             \* FileBroker: timestamps of all backups ever made
    nPersists,        \* FileBroker: saveFile calls so far
    isReady,          \* PandocHandler.isReady
    initPc,           \* initialize(): "idle" (never called), "checking" (at its
                      \* await), "available" or "unavailable" (what the check found)
    call,             \* the conversion call in progress and where it is suspended
    result,           \* what the last conversion call returned or threw
    proc,             \* the engine process spawned by executePandoc
    stdoutBuf,        \* executePandoc: let stdout
    stderrBuf,        \* executePandoc: let stderr
    promise,          \* the promise executePandoc returned
    log,              \* the steps of the call, in the order they ran
    nSpawned,         \* cp.spawn('pandoc', args) calls of executePandoc so far
    nCalls,           \* conversion calls so far
    nInits,           \* initialize() calls so far
    config,           \* PandocHandler.config
    lastUpdate,       \* the argument of the last updateConfig call
    instance,         \* PandocHandler.instance: the handler object (0: undefined)
    logger,           \* PandocHandler.logger
    tempDir,          \* PandocHandler.tempDir (0: the empty string)
    liveDirs,         \* the temporary directories that exist on the disk
    returned,         \* what the getInstance calls returned, in order
    pure              \* a pure function of the handler, its argument and its results

webviewVars == <<editorInnerHTML, timers, saveTimeout, updateTimeout, lastEdit, nPosted, overwritten, lastContent>>
timeVars == <<now, due, runStart>>
brokerVars == <<backups, clock, broker, brokerPending, made, nPersists>>
docVars == <<docText, modelText, savedText, nExternal>>
hostVars == <<isUpdating, tasks, acks, errorMessages, refreshes>>
engineVars == <<isReady, initPc, call, result, proc, stdoutBuf, stderrBuf, promise, log,
                nSpawned, nCalls, nInits>>
editorVars == <<editorOf, webviewVars, timeVars, docVars, hostVars, brokerVars, toHost, fromMain>>
configVars == <<config, lastUpdate>>
instanceVars == <<instance, logger, tempDir, liveDirs, returned>>
vars == <<editorVars, engineVars, configVars, instanceVars, pure>>

FreeTask == [pc |-> "free", doc |-> "-", html |-> <<>>, trigger |-> 0, replaced |-> FALSE,
             newText |-> <<>>, wrote |-> <<>>]
BrokerIdle == [pc |-> "idle", payload |-> <<>>, text |-> <<>>, callers |-> {}]
NoPending == [content |-> <<>>, callers |-> {}]

Free(t) == tasks[t].pc = "free"
ActiveTasks == {t \in TaskIds : ~Free(t)}
NewTask == CHOOSE t \in TaskIds : Free(t) /\ \A u \in TaskIds : Free(u) => t <= u

\* ------------------------------------------------------------------ Init
\* The state after resolveCustomTextEditor: the panel shows the rendering of
\* the document, nothing is pending.
\* ---------------------------------------------------------- PandocHandler
\* A string is a sequence of tokens.  In markup: "text", " " and "\n"
\* (whitespace), "ce" (an attribute  contenteditable="..." with the
\* whitespace before it), "sc" (the same for spellcheck), "<div>", "</div>".
IsSpace(x) == x \in {" ", "\t", "\n"}
NotCe(x) == x # "ce"
NotSc(x) == x # "sc"

\* String.prototype.trim
RECURSIVE TrimStart(_)
TrimStart(s) == IF s # <<>> /\ IsSpace(Head(s)) THEN TrimStart(Tail(s)) ELSE s

RECURSIVE TrimEnd(_)
TrimEnd(s) ==
    IF s # <<>> /\ IsSpace(s[Len(s)]) THEN TrimEnd(SubSeq(s, 1, Len(s) - 1)) ELSE s

Trim(s) == TrimEnd(TrimStart(s))

\* The index of the first token at or after i that is not whitespace.
RECURSIVE SkipSpace(_, _)
SkipSpace(s, i) == IF i <= Len(s) /\ IsSpace(s[i]) THEN SkipSpace(s, i + 1) ELSE i

\* replace(/<div>\s*<\/div>/g, ''): one pass from left to right.
RECURSIVE RemoveEmptyDivs(_, _)
RemoveEmptyDivs(s, i) ==
    IF i > Len(s) THEN <<>>
    ELSE LET j == SkipSpace(s, i + 1)
         IN IF s[i] = "<div>" /\ j <= Len(s) /\ s[j] = "</div>"
            THEN RemoveEmptyDivs(s, j + 1)
            ELSE <<s[i]>> \o RemoveEmptyDivs(s, i + 1)

\* PandocHandler.cleanIncomingHtml
cleanIncomingHtml(html) ==
    Trim(RemoveEmptyDivs(SelectSeq(SelectSeq(html, NotCe), NotSc), 1))

\* The number of "\n" tokens in a row from i on.
RECURSIVE NewlineRun(_, _)
NewlineRun(s, i) == IF i <= Len(s) /\ s[i] = "\n" THEN 1 + NewlineRun(s, i + 1) ELSE 0

\* replace(/\n{3,}/g, '\n'): a run collapses to one newline.
RECURSIVE CollapseNewlines_toOne(_, _)
CollapseNewlines_toOne(s, i) ==
    IF i > Len(s) THEN <<>>
    ELSE IF NewlineRun(s, i) >= 3
         THEN <<"\n">> \o CollapseNewlines_toOne(s, i + NewlineRun(s, i))
         ELSE <<s[i]>> \o CollapseNewlines_toOne(s, i + 1)

\* replace(/\n{3}/g, '\n\n'): three newlines at a time.
RECURSIVE CollapseNewlines_three(_, _)
CollapseNewlines_three(s, i) ==
    IF i > Len(s) THEN <<>>
    ELSE IF NewlineRun(s, i) >= 3
         THEN <<"\n", "\n">> \o CollapseNewlines_three(s, i + 3)
         ELSE <<s[i]>> \o CollapseNewlines_three(s, i + 1)

\* A replace that also takes the character after the run.
RECURSIVE CollapseNewlines_skipNext(_, _)
CollapseNewlines_skipNext(s, i) ==
    IF i > Len(s) THEN <<>>
    ELSE IF NewlineRun(s, i) >= 3
         THEN <<"\n", "\n">> \o CollapseNewlines_skipNext(s, i + NewlineRun(s, i) + 1)
         ELSE <<s[i]>> \o CollapseNewlines_skipNext(s, i + 1)

\* replace(/\n{3,}/g, '\n\n')
RECURSIVE CollapseNewlines(_, _)
CollapseNewlines(s, i) ==
    IF i > Len(s) THEN <<>>
    ELSE IF NewlineRun(s, i) >= 3
         THEN <<"\n", "\n">> \o CollapseNewlines(s, i + NewlineRun(s, i))
         ELSE <<s[i]>> \o CollapseNewlines(s, i + 1)

\* PandocHandler.postProcessPandocMarkdown
postProcessPandocMarkdown(markdown) == Trim(CollapseNewlines(markdown, 1))

\* prettier.format(text, {parser: 'markdown', proseWrap: 'preserve'}) when
\* it succeeds: the formatted text ends with one newline.
prettierFormat(text) == IF TrimEnd(text) = <<>> THEN <<>> ELSE TrimEnd(text) \o <<"\n">>

\* The argument vector of pandocHtmlToRawMarkdown.
HtmlToRawMarkdownArgs ==
    <<"--from=html-native_divs-native_spans", "--to=commonmark_x", "--wrap=none">>

\* The chunks the engine writes, and what the calls are given.
OutChunks == {<<"text">>, <<"\n", "\n">>}
ErrChunks == {<<"unknown ">>, <<"option">>}
HtmlInputs == {<<"text">>, <<" ", "text", "ce", "sc">>, <<"<div>", " ", "</div>", "text">>}
ExitCodes == {0, 1, 2}

\* A value of the configuration: a string, an array or an object (a
\* function from its keys to values).
Str(x) == [kind |-> "string", val |-> x]
Arr(items) == [kind |-> "array", val |-> items]
Obj(fields) == [kind |-> "object", val |-> fields]
EmptyObject == [key \in {} |-> Str("")]

\* private config: PandocConfig = {...}
DefaultConfig ==
    [mathjaxConfig |-> Obj(EmptyObject),
     luaFilters |-> Arr(<<>>),
     additionalArgs |-> Arr(<<>>),
     citationStyle |-> Str("pandoc-citeproc"),
     defaultMathDelimiters |-> Obj([inline |-> Arr(<<"$", "$">>),
                                    display |-> Arr(<<"$$", "$$">>)]),
     prettierOptions |-> Obj([parser |-> Str("markdown"), proseWrap |-> Str("preserve")])]

\* Object.assign(target, source): the nested records are replaced whole.
deepMerge_shallow(target, source) ==
    [key \in DOMAIN target \cup DOMAIN source |->
        IF key \in DOMAIN source THEN source[key] ELSE target[key]]

\* deepMerge(target, source): a key of source whose value is an object (not
\* an array) is merged into an object at the same key of target, key by key;
\* every other key of source replaces the key of target.
RECURSIVE deepMerge(_, _)
deepMerge(target, source) ==
    [key \in DOMAIN target \cup DOMAIN source |->
        IF key \notin DOMAIN source THEN target[key]
        ELSE IF /\ source[key].kind = "object"
                /\ key \in DOMAIN target
                /\ target[key].kind \in {"object", "array"}
             THEN Obj(deepMerge(target[key].val, source[key].val))
             ELSE source[key]]

\* The options convertHtmlToMarkdown gives to prettier.format:
\* {...this.config.prettierOptions, parser: 'markdown', proseWrap: 'preserve'}
prettierOptions(cfg) ==
    [key \in DOMAIN cfg["prettierOptions"].val \cup {"parser", "proseWrap"} |->
        IF key = "parser" THEN Str("markdown")
        ELSE IF key = "proseWrap" THEN Str("preserve")
        ELSE cfg["prettierOptions"].val[key]]

\* exitCode: number | null
Null == {}
Some(c) == {c}

CodeText(code) == IF code = Null THEN "null" ELSE ToString(CHOOSE c \in code : TRUE)

RECURSIVE Concat(_)
Concat(chunks) == IF chunks = <<>> THEN <<>> ELSE Head(chunks) \o Concat(Tail(chunks))

PandocError(message, stderr, exitCode, args) ==
    [name |-> "PandocError", message |-> message, stderr |-> stderr,
     exitCode |-> exitCode, args |-> args]

\* ensureReady: throw new Error(...)
NotReadyError ==
    [name |-> "Error", message |-> <<"PandocHandler is not initialized or Pandoc is unavailable.">>,
     stderr |-> <<>>, exitCode |-> Null, args |-> <<>>]

\* No pure function is under study: the handler runs as a whole.
NoPure == [fn |-> "none", arg |-> <<>>, out |-> <<>>, prev |-> <<>>, n |-> 0]

\* The PandocHandler after its construction: not ready, nothing running.
Templates == {"", "t.html"}
FilterLists == {<<>>, <<"f1">>, <<"f1", "f2">>, <<"f2", "f1">>}
VariableLists == {<<>>, <<<<"k1", "v1">>>>, <<<<"k1", "v1">>, <<"k2", "v2">>>>}

\* ConversionOptions: mathjax and standalone (absent is false), template
\* (absent is ""), filters, variables (the entries in their order).
Options == [mathjax : BOOLEAN, standalone : BOOLEAN, template : Templates,
            filters : FilterLists, variables : VariableLists]
NoOptions == [mathjax |-> FALSE, standalone |-> FALSE, template |-> "", filters |-> <<>>,
              variables |-> <<>>]

\* built: the configuration when the call built its arguments.
NoCall == [pc |-> "none", op |-> "-", entry |-> "-", input |-> <<>>, processed |-> <<>>,
           options |-> NoOptions, built |-> DefaultConfig]
NoResult == [kind |-> "none"]
NoProc == [state |-> "none", args |-> <<>>, cwd |-> 0, stdin |-> <<>>, out |-> <<>>, err |-> <<>>,
           code |-> Null]
NoPromise == [state |-> "none"]

\* Logger.getInstance() (the constructor's default) and the loggers a caller
\* may pass to getInstance.
DefaultLogger == "Logger.getInstance()"
Loggers == {DefaultLogger, "logger2"}
NoLogger == "undefined"

\* The fields of a PandocHandler after its constructor (lines 93-117), and
\* the state of the calls made on it.
InitHandlerFields ==
    /\ config = DefaultConfig
    /\ lastUpdate = EmptyObject
    /\ isReady = FALSE
    /\ initPc = "idle"
    /\ call = NoCall
    /\ result = NoResult
    /\ proc = NoProc
    /\ stdoutBuf = <<>>
    /\ stderrBuf = <<>>
    /\ promise = NoPromise
    /\ log = <<>>
    /\ nSpawned = 0
    /\ nCalls = 0
    /\ nInits = 0
    /\ logger = DefaultLogger
    /\ tempDir = 0
    /\ liveDirs = {}

\* The extension has obtained the handler (extension.ts line 14).
InitEngine ==
    /\ InitHandlerFields
    /\ instance = 1
    /\ returned = <<>>

InitEditors ==
    /\ docText = [d \in Docs |-> Md(0)]
    /\ modelText = [d \in Docs |-> Md(0)]
    /\ savedText = [d \in Docs |-> Md(0)]
    /\ editorInnerHTML = [d \in Docs |-> Html(0)]
    /\ timers = [d \in Docs |-> {}]
    /\ saveTimeout = [d \in Docs |-> 0]
    /\ updateTimeout = [d \in Docs |-> 0]
    /\ toHost = [d \in Docs |-> <<>>]
    /\ isUpdating = FALSE
    /\ tasks = [t \in TaskIds |-> FreeTask]
    /\ fromMain = <<>>
    /\ refreshes = [d \in Docs |-> {}]
    /\ acks = [d \in Docs |-> <<>>]
    /\ errorMessages = {}
    /\ lastEdit = [d \in Docs |-> 0]
    /\ nPosted = [d \in Docs |-> 0]
    /\ nExternal = 0
    /\ overwritten = [d \in Docs |-> FALSE]
    /\ lastContent = [d \in Docs |-> Html(0)]
    /\ now = 0
    /\ due = [d \in Docs |-> 0]
    /\ runStart = [d \in Docs |-> -1]
    /\ backups = [d \in Docs |-> {}]
    /\ clock = 1
    /\ broker = [d \in Docs |-> BrokerIdle]
    /\ brokerPending = [d \in Docs |-> NoPending]
    /\ made = [d \in Docs |-> {}]
    /\ nPersists = [d \in Docs |-> 0]

InitCommon ==
    /\ InitEngine
    /\ InitEditors

\* One document is open, in one of the three editors.
Versions == {"V0", "VA.ts", "VA.js"}

Init ==
    /\ \E v \in Versions : editorOf = [d \in Docs |-> IF d = "A" THEN v ELSE "none"]
    /\ InitCommon
    /\ pure = NoPure

\* ------------------------------------------------- PandocHandler: actions
\* fs.mkdtemp: a directory that was never made before.
NewDir == nInits + 1

\* initialize() up to the await of checkPandocAvailable (mkdtemp is taken to
\* succeed): 'pandoc --version' is spawned.
InitializeStart ==
    /\ instance # 0
    /\ initPc # "checking"
    /\ nInits < MaxInits
    /\ nInits' = nInits + 1
    /\ initPc' = "checking"
    /\ tempDir' = NewDir
    /\ liveDirs' = liveDirs \cup {NewDir}
    /\ UNCHANGED <<editorVars, configVars, instance, logger, returned, pure, isReady, call, result, proc, stdoutBuf, stderrBuf, promise, log,
                   nSpawned, nCalls>>

\* checkPandocAvailable settles: resolved when the process closed with code
\* 0, rejected on 'error' or another code.
InitializeDone(available) ==
    /\ initPc = "checking"
    /\ initPc' = IF available THEN "available" ELSE "unavailable"
    /\ isReady' = available
    /\ UNCHANGED <<editorVars, configVars, instanceVars, pure, call, result, proc, stdoutBuf, stderrBuf, promise, log,
                   nSpawned, nCalls, nInits>>

\* new PandocHandler(logger): a new object with the fields of lines 93-109
\* and the logger given, or the default one.
NewHandler(l) ==
    /\ instance' = instance + 1
    /\ logger' = IF l = NoLogger THEN DefaultLogger ELSE l
    /\ isReady' = FALSE
    /\ tempDir' = 0
    /\ config' = DefaultConfig

\* A getInstance that makes a handler on every call.
getInstance_fresh(l) == NewHandler(l)

\* PandocHandler.getInstance(logger?)
getInstance(l) ==
    IF instance = 0
    THEN NewHandler(l)
    ELSE IF l # NoLogger /\ logger # l
    THEN logger' = l /\ UNCHANGED <<instance, isReady, tempDir, config>>
    ELSE UNCHANGED <<instance, logger, isReady, tempDir, config>>

\* A caller calls PandocHandler.getInstance(l) and keeps what it returns.
GetInstance(l) ==
    /\ Len(returned) < MaxGets
    /\ getInstance(l)
    /\ returned' = Append(returned, [handler |-> instance', logger |-> l])
    /\ UNCHANGED <<editorVars, lastUpdate, liveDirs, pure, initPc, call, result, proc, stdoutBuf,
                   stderrBuf, promise, log, nSpawned, nCalls, nInits>>

\* dispose(): the directory of tempDir is removed; the fields stay.
Dispose ==
    /\ instance # 0
    /\ liveDirs' = IF tempDir # 0 THEN liveDirs \ {tempDir} ELSE liveDirs
    /\ UNCHANGED <<editorVars, engineVars, configVars, instance, logger, tempDir, returned, pure>>

\* updateConfig(updates): this.config = deepMerge({ ...this.config }, updates)
UpdateConfig(updates) ==
    /\ config' = deepMerge(config, updates)
    /\ lastUpdate' = updates
    /\ UNCHANGED <<editorVars, engineVars, instanceVars, pure>>

\* The updates the callers make: each a Partial<PandocConfig>.
Updates ==
    {[citationStyle |-> Str("chicago")],
     [citationStyle |-> Str("apa")],
     [additionalArgs |-> Arr(<<"--toc">>)],
     [additionalArgs |-> Arr(<<"--toc", "--number-sections">>)],
     [luaFilters |-> Arr(<<"f.lua">>)],
     [prettierOptions |-> Obj([proseWrap |-> Str("always")])],
     [prettierOptions |-> Obj([tabWidth |-> Str("4")])],
     [defaultMathDelimiters |-> Obj([inline |-> Arr(<<"\\(", "\\)">>)])],
     [mathjaxConfig |-> Obj([tex |-> Str("ams")])],
     [citationStyle |-> Str("chicago"), prettierOptions |-> Obj([tabWidth |-> Str("2")])]}

\* resolve/reject of a promise that a later call replaces the outcome of.
Settle_overwrite(p, outcome) == outcome

\* resolve(value) / reject(error): only the first call settles the promise.
Settle(p, outcome) == IF p.state = "pending" THEN outcome ELSE p

\* executePandoc without its ensureReady() call: the process is spawned
\* whatever isReady says.
executePandoc_noEnsureReady(args, input) ==
    /\ proc' = [state |-> "starting", args |-> args, cwd |-> tempDir, stdin |-> input, out |-> <<>>,
                err |-> <<>>, code |-> Null]
    /\ promise' = [state |-> "pending"]
    /\ nSpawned' = nSpawned + 1
    /\ stdoutBuf' = <<>>
    /\ stderrBuf' = <<>>

\* executePandoc(args, input) up to the return of its promise: ensureReady
\* throws (the async function's promise is rejected), or the process is
\* spawned and the input written to its stdin.
executePandoc(args, input) ==
    IF isReady
    THEN /\ proc' = [state |-> "starting", args |-> args, cwd |-> tempDir, stdin |-> input, out |-> <<>>,
                     err |-> <<>>, code |-> Null]
         /\ promise' = [state |-> "pending"]
         /\ nSpawned' = nSpawned + 1
         /\ stdoutBuf' = <<>>
         /\ stderrBuf' = <<>>
    ELSE /\ promise' = [state |-> "rejected", error |-> NotReadyError]
         /\ proc' = NoProc
         /\ stdoutBuf' = <<>>
         /\ stderrBuf' = <<>>
         /\ UNCHANGED nSpawned

\* The process has started: its working directory exists (cp.spawn emits
\* 'error' when it does not).
ProcSpawned ==
    /\ proc.state = "starting"
    /\ proc.cwd \in liveDirs
    /\ proc' = [proc EXCEPT !.state = "running"]
    /\ UNCHANGED <<editorVars, configVars, instanceVars, pure, isReady, initPc, call, result, stdoutBuf, stderrBuf, promise, log,
                   nSpawned, nCalls, nInits>>

\* proc.on('error'): the process could not be started.
ProcError ==
    /\ proc.state = "starting"
    /\ proc' = [proc EXCEPT !.state = "failed"]
    /\ promise' = Settle(promise, [state |-> "rejected",
            error |-> PandocError(<<"Failed to start Pandoc">>, <<"spawn pandoc ENOENT">>, Null,
                                  proc.args)])
    /\ UNCHANGED <<editorVars, configVars, instanceVars, pure, isReady, initPc, call, result, stdoutBuf, stderrBuf, log,
                   nSpawned, nCalls, nInits>>

\* A 'data' listener that puts the chunk before what has arrived.
StdoutData_prepend(chunk) ==
    /\ proc.state = "running"
    /\ Len(proc.out) < MaxChunks
    /\ proc' = [proc EXCEPT !.out = Append(@, chunk)]
    /\ stdoutBuf' = chunk \o stdoutBuf
    /\ UNCHANGED <<editorVars, configVars, instanceVars, pure, isReady, initPc, call, result, stderrBuf, promise, log,
                   nSpawned, nCalls, nInits>>

\* proc.stdout.on('data')
StdoutData(chunk) ==
    /\ proc.state = "running"
    /\ Len(proc.out) < MaxChunks
    /\ proc' = [proc EXCEPT !.out = Append(@, chunk)]
    /\ stdoutBuf' = stdoutBuf \o chunk
    /\ UNCHANGED <<editorVars, configVars, instanceVars, pure, isReady, initPc, call, result, stderrBuf, promise, log,
                   nSpawned, nCalls, nInits>>

\* proc.stderr.on('data')
StderrData(chunk) ==
    /\ proc.state = "running"
    /\ Len(proc.err) < MaxChunks
    /\ proc' = [proc EXCEPT !.err = Append(@, chunk)]
    /\ stderrBuf' = stderrBuf \o chunk
    /\ UNCHANGED <<editorVars, configVars, instanceVars, pure, isReady, initPc, call, result, stdoutBuf, promise, log,
                   nSpawned, nCalls, nInits>>

\* proc.on('close'): the process has ended (code: a number, or null when a
\* signal ended it) and its streams are closed; after a failed start the
\* event may follow the 'error' event, with a negative code.
ProcClose(code) ==
    /\ \/ proc.state = "running" /\ (code = Null \/ \E c \in ExitCodes : code = Some(c))
       \/ proc.state = "failed" /\ code = Some(-2)
    /\ proc' = [proc EXCEPT !.state = "closed", !.code = code]
    /\ promise' = Settle(promise,
            IF code = Some(0)
            THEN [state |-> "resolved", value |-> stdoutBuf]
            ELSE [state |-> "rejected",
                  error |-> PandocError(<<"Pandoc exited with code ", CodeText(code)>>, stderrBuf, code,
                                        proc.args)])
    /\ UNCHANGED <<editorVars, configVars, instanceVars, pure, isReady, initPc, call, result, stdoutBuf, stderrBuf, log,
                   nSpawned, nCalls, nInits>>

\* The process stops making progress and never exits.
ProcHang ==
    /\ proc.state = "running"
    /\ proc' = [proc EXCEPT !.state = "hung"]
    /\ UNCHANGED <<editorVars, configVars, instanceVars, pure, isReady, initPc, call, result, stdoutBuf, stderrBuf, promise, log,
                   nSpawned, nCalls, nInits>>

\* One step of the call, as the log keeps it.
Step(name, args, input) == [step |-> name, args |-> args, input |-> input]

\* convertHtmlToMarkdown that hands the markup to the engine as it came.
StartHtmlToMarkdown_noClean(entry, html, options) ==
    /\ call' = [pc |-> "exec", op |-> "convertHtmlToMarkdown", entry |-> entry, input |-> html,
                processed |-> <<>>, options |-> options,
                built |-> config]
    /\ log' = <<Step("cleanIncomingHtml", <<>>, html)>>
              \o IF isReady THEN <<Step("spawn", HtmlToRawMarkdownArgs, html)>> ELSE <<>>
    /\ executePandoc(HtmlToRawMarkdownArgs, html)

\* convertHtmlToMarkdown(html) up to its first await: pre-clean, then
\* pandocHtmlToRawMarkdown calls executePandoc.
StartHtmlToMarkdown(entry, html, options) ==
    /\ call' = [pc |-> "exec", op |-> "convertHtmlToMarkdown", entry |-> entry, input |-> html,
                processed |-> <<>>, options |-> options,
                built |-> config]
    /\ log' = <<Step("cleanIncomingHtml", <<>>, html)>>
              \o IF isReady
                 THEN <<Step("spawn", HtmlToRawMarkdownArgs, cleanIncomingHtml(html))>>
                 ELSE <<>>
    /\ executePandoc(HtmlToRawMarkdownArgs, cleanIncomingHtml(html))

\* buildPandocArgs that leaves the configured additional arguments out.
buildPandocArgs_noAdditional(from, to, options) ==
    <<"--from=" \o from, "--to=" \o to>>
    \o (IF options.mathjax THEN <<"--mathjax">> ELSE <<>>)
    \o (IF options.standalone THEN <<"--standalone">> ELSE <<>>)
    \o (IF options.template # "" THEN <<"--template=" \o options.template>> ELSE <<>>)
    \o [i \in 1..Len(options.filters) |-> "--filter=" \o options.filters[i]]
    \o [i \in 1..Len(options.variables) |->
            "-V" \o options.variables[i][1] \o "=" \o options.variables[i][2]]

\* PandocHandler.buildPandocArgs
buildPandocArgs(from, to, options) ==
    <<"--from=" \o from, "--to=" \o to>>
    \o (IF options.mathjax THEN <<"--mathjax">> ELSE <<>>)
    \o (IF options.standalone THEN <<"--standalone">> ELSE <<>>)
    \o (IF options.template # "" THEN <<"--template=" \o options.template>> ELSE <<>>)
    \o [i \in 1..Len(options.filters) |-> "--filter=" \o options.filters[i]]
    \o [i \in 1..Len(options.variables) |->
            "-V" \o options.variables[i][1] \o "=" \o options.variables[i][2]]
    \o config["additionalArgs"].val

\* The argument vector of convertMarkdownToHtml.
MarkdownToHtmlArgs(options) ==
    <<"--from=markdown+tex_math_dollars", "--to=html", "--mathjax">>
    \o buildPandocArgs("markdown", "html", options)

\* convertMarkdownToHtml(markdown, options) up to its await.
StartMarkdownToHtml(entry, markdown, options) ==
    /\ call' = [pc |-> "exec", op |-> "convertMarkdownToHtml", entry |-> entry,
                input |-> markdown, processed |-> <<>>, options |-> options,
                built |-> config]
    /\ log' = IF isReady THEN <<Step("spawn", MarkdownToHtmlArgs(options), markdown)>> ELSE <<>>
    /\ executePandoc(MarkdownToHtmlArgs(options), markdown)

Formats == {"html", "markdown", "latex"}
CallOptions == {[NoOptions EXCEPT !.mathjax = m] : m \in BOOLEAN}
MarkdownInputs == {<<"text">>, <<"text", "\n", "\n", "\n", "text", "\n">>}

\* A caller calls convertHtmlToMarkdown(html).
CallConvertHtmlToMarkdown(html) ==
    /\ instance # 0
    /\ call.pc = "none"
    /\ nCalls < MaxCalls
    /\ nCalls' = nCalls + 1
    /\ result' = NoResult
    /\ StartHtmlToMarkdown("convertHtmlToMarkdown", html, NoOptions)
    /\ UNCHANGED <<editorVars, configVars, instanceVars, pure, isReady, initPc, nInits>>

\* A caller calls convertMarkdownToHtml(markdown, options).
CallConvertMarkdownToHtml(markdown, options) ==
    /\ instance # 0
    /\ call.pc = "none"
    /\ nCalls < MaxCalls
    /\ nCalls' = nCalls + 1
    /\ result' = NoResult
    /\ StartMarkdownToHtml("convertMarkdownToHtml", markdown, options)
    /\ UNCHANGED <<editorVars, configVars, instanceVars, pure, isReady, initPc, nInits>>

\* A caller calls convertString(content, from, to, options): ensureReady
\* throws, or the call goes to one of the two conversions above, or to
\* executePandoc with the arguments buildPandocArgs makes.
CallConvertString(content, from, to, options) ==
    /\ instance # 0
    /\ call.pc = "none"
    /\ nCalls < MaxCalls
    /\ nCalls' = nCalls + 1
    /\ IF ~isReady
       THEN /\ result' = [kind |-> "error", error |-> NotReadyError]
            /\ log' = <<>>
            /\ proc' = NoProc
            /\ promise' = NoPromise
            /\ stdoutBuf' = <<>>
            /\ stderrBuf' = <<>>
            /\ UNCHANGED <<call, nSpawned>>
       ELSE /\ result' = NoResult
            /\ IF from = "html" /\ to = "markdown"
               THEN StartHtmlToMarkdown("convertString", content, options)
               ELSE IF from = "markdown" /\ to = "html" /\ options.mathjax
               THEN StartMarkdownToHtml("convertString", content, options)
               ELSE /\ call' = [pc |-> "exec", op |-> "convertString", entry |-> "convertString",
                                input |-> content, processed |-> <<>>, options |-> options,
                                built |-> config]
                    /\ log' = <<Step("spawn", buildPandocArgs(from, to, options), content)>>
                    /\ executePandoc(buildPandocArgs(from, to, options), content)
    /\ UNCHANGED <<editorVars, configVars, instanceVars, pure, isReady, initPc, nInits>>

\* A catch block that wraps whatever it catches.
WrapError_always(prefix, e) ==
    PandocError(<<prefix>> \o (IF e.message = <<>> THEN <<"Unknown error">> ELSE e.message),
                e.stderr, Null, <<>>)

\* The catch blocks of convertHtmlToMarkdown and convertMarkdownToHtml: a
\* PandocError is thrown again as it is, another error is wrapped.
WrapError(prefix, e) ==
    IF e.name = "PandocError" THEN e
    ELSE PandocError(<<prefix>> \o (IF e.message = <<>> THEN <<"Unknown error">> ELSE e.message),
                     e.stderr, Null, <<>>)

\* The call resumes after await executePandoc(...).
ExecSettled ==
    /\ call.pc = "exec"
    /\ promise.state \in {"resolved", "rejected"}
    /\ CASE call.op = "convertHtmlToMarkdown" ->
               IF promise.state = "resolved"
               THEN /\ call' = [call EXCEPT !.pc = "prettier",
                                            !.processed = postProcessPandocMarkdown(promise.value)]
                    /\ log' = log \o <<Step("postProcessPandocMarkdown", <<>>, promise.value),
                                       Step("prettier.format", prettierOptions(config),
                                            postProcessPandocMarkdown(promise.value))>>
                    /\ UNCHANGED result
               ELSE /\ result' = [kind |-> "error",
                          error |-> WrapError("Failed to convert HTML to Markdown: ", promise.error)]
                    /\ call' = NoCall
                    /\ UNCHANGED log
         [] call.op = "convertMarkdownToHtml" ->
               /\ result' = IF promise.state = "resolved"
                            THEN [kind |-> "value", value |-> promise.value, formatted |-> FALSE]
                            ELSE [kind |-> "error",
                                  error |-> WrapError("Failed to convert Markdown to HTML: ",
                                                      promise.error)]
               /\ call' = NoCall
               /\ UNCHANGED log
         [] call.op = "convertString" ->
               /\ result' = IF promise.state = "resolved"
                            THEN [kind |-> "value", value |-> promise.value, formatted |-> FALSE]
                            ELSE [kind |-> "error", error |-> promise.error]
               /\ call' = NoCall
               /\ UNCHANGED log
    /\ UNCHANGED <<editorVars, configVars, instanceVars, pure, isReady, initPc, proc, stdoutBuf, stderrBuf, promise, nSpawned,
                   nCalls, nInits>>

\* The formatter's fallback replaced by a throw.
PrettierDone_throw(ok) ==
    /\ call.pc = "prettier"
    /\ result' = IF ok THEN [kind |-> "value", value |-> prettierFormat(call.processed),
                              formatted |-> TRUE]
                 ELSE [kind |-> "error",
                       error |-> PandocError(<<"Failed to convert HTML to Markdown: ",
                                               "prettier failed">>, <<>>, Null, <<>>)]
    /\ call' = NoCall
    /\ UNCHANGED <<editorVars, configVars, instanceVars, pure, isReady, initPc, proc, stdoutBuf, stderrBuf, promise, log,
                   nSpawned, nCalls, nInits>>

\* prettier.format settles: the formatted text is returned, or (catch of
\* lines 361-364) the post-processed text.
PrettierDone(ok) ==
    /\ call.pc = "prettier"
    /\ result' = [kind |-> "value",
                  value |-> IF ok THEN prettierFormat(call.processed) ELSE call.processed,
                  formatted |-> ok]
    /\ call' = NoCall
    /\ UNCHANGED <<editorVars, configVars, instanceVars, pure, isReady, initPc, proc, stdoutBuf, stderrBuf, promise, log,
                   nSpawned, nCalls, nInits>>

\* ------------------------------------------------------------- V0 webview
\* Input without clearTimeout(saveTimeout): the earlier timer stays armed.
Input_noClear(d, c) ==
    /\ editorOf[d] = "V0"
    /\ nPosted[d] + Cardinality(timers[d]) < MaxSaves
    /\ \E id \in TimerIds :
          /\ id \notin timers[d]
          /\ \A j \in TimerIds : j \notin timers[d] => id <= j
          /\ timers' = [timers EXCEPT ![d] = @ \cup {id}]
          /\ saveTimeout' = [saveTimeout EXCEPT ![d] = id]
    /\ editorInnerHTML' = [editorInnerHTML EXCEPT ![d] = Html(c)]
    /\ lastEdit' = [lastEdit EXCEPT ![d] = c]
    /\ overwritten' = [overwritten EXCEPT ![d] =
            timers[d] # {} /\ (@ \/ editorInnerHTML[d] # Html(c))]
    /\ due' = [due EXCEPT ![d] = now + DebounceMs]
    /\ runStart' = [runStart EXCEPT ![d] = IF timers[d] = {} THEN now ELSE @]
    /\ UNCHANGED <<editorOf, engineVars, configVars, instanceVars, pure, nPosted, lastContent, updateTimeout, now, docVars, hostVars, brokerVars, toHost, fromMain>>

\* editor.addEventListener('input', ...): the user has changed the DOM to
\* content c; the pending timer is cleared and a new one armed.
Input(d, c) ==
    /\ editorOf[d] = "V0"
    /\ LET kept == timers[d] \ {saveTimeout[d]}
       IN /\ nPosted[d] + Cardinality(kept) < MaxSaves
          /\ \E id \in TimerIds :
                /\ id \notin kept
                /\ \A j \in TimerIds : j \notin kept => id <= j
                /\ timers' = [timers EXCEPT ![d] = kept \cup {id}]
                /\ saveTimeout' = [saveTimeout EXCEPT ![d] = id]
    /\ editorInnerHTML' = [editorInnerHTML EXCEPT ![d] = Html(c)]
    /\ lastEdit' = [lastEdit EXCEPT ![d] = c]
    /\ overwritten' = [overwritten EXCEPT ![d] =
            timers[d] # {} /\ (@ \/ editorInnerHTML[d] # Html(c))]
    /\ due' = [due EXCEPT ![d] = now + DebounceMs]
    /\ runStart' = [runStart EXCEPT ![d] = IF timers[d] = {} THEN now ELSE @]
    /\ UNCHANGED <<editorOf, engineVars, configVars, instanceVars, pure, nPosted, lastContent, updateTimeout, now, docVars, hostVars, brokerVars, toHost, fromMain>>

\* The setTimeout callback: post 'save' with the DOM as it is now.
TimerFire(d, id) ==
    /\ editorOf[d] = "V0"
    /\ id \in timers[d]
    /\ timers' = [timers EXCEPT ![d] = @ \ {id}]
    /\ toHost' = [toHost EXCEPT ![d] = Append(@,
            [type |-> "save", content |-> editorInnerHTML[d], trigger |-> lastEdit[d],
             replaced |-> overwritten[d]])]
    /\ nPosted' = [nPosted EXCEPT ![d] = @ + 1]
    /\ overwritten' = [overwritten EXCEPT ![d] = FALSE]
    /\ runStart' = [runStart EXCEPT ![d] = IF timers'[d] = {} THEN -1 ELSE @]
    /\ UNCHANGED <<editorOf, engineVars, configVars, instanceVars, pure, editorInnerHTML, saveTimeout, updateTimeout, lastEdit, lastContent, now, due,
                   docVars, hostVars, brokerVars, fromMain>>

\* ------------------------------------------------------------ V0 host
\* updateDocument without the isUpdating check of line 138.
updateDocument_noGuard(d, m) ==
    /\ \E t \in TaskIds : Free(t)
    /\ isUpdating' = TRUE
    /\ tasks' = [tasks EXCEPT ![NewTask] =
           [pc |-> "convert", doc |-> d, html |-> m.content,
            trigger |-> m.trigger, replaced |-> m.replaced,
            newText |-> <<>>, wrote |-> <<>>]]
    /\ UNCHANGED acks

\* PandocEditor.updateDocument up to its first await, and (when the call
\* returns at once) the rest of the 'save' case that called it.
updateDocument(d, m) ==
    IF isUpdating
    THEN \* line 138: return document.getText(); lines 97-101: post 'saved'
         /\ acks' = [acks EXCEPT ![d] = Append(@,
                [success |-> TRUE, request |-> m.content, content |-> docText[d], via |-> "skip",
                 persisted |-> FALSE])]
         /\ UNCHANGED <<isUpdating, tasks>>
    ELSE \* lines 140-143: set the flag, start the conversion
         /\ \E t \in TaskIds : Free(t)
         /\ isUpdating' = TRUE
         /\ tasks' = [tasks EXCEPT ![NewTask] =
                [pc |-> "convert", doc |-> d, html |-> m.content,
                 trigger |-> m.trigger, replaced |-> m.replaced,
                 newText |-> <<>>, wrote |-> <<>>]]
         /\ UNCHANGED acks

\* webview.onDidReceiveMessage, case 'save'.
HandleSave(d) ==
    /\ editorOf[d] = "V0"
    /\ toHost[d] # <<>>
    /\ Head(toHost[d]).type = "save"
    /\ toHost' = [toHost EXCEPT ![d] = Tail(@)]
    /\ updateDocument(d, Head(toHost[d]))
    /\ UNCHANGED <<editorOf, engineVars, configVars, instanceVars, pure, timeVars, brokerVars, webviewVars, docVars, errorMessages, refreshes, fromMain>>

\* convertHtmlToMarkdown resolves: build the WorkspaceEdit, call applyEdit.
ConvertOk(t) ==
    /\ tasks[t].pc = "convert"
    /\ tasks' = [tasks EXCEPT ![t].pc = "applyEdit",
                              ![t].newText = convertHtmlToMarkdown(tasks[t].html)]
    /\ UNCHANGED <<editorOf, engineVars, configVars, instanceVars, pure, timeVars, brokerVars, webviewVars, docVars, isUpdating, acks, errorMessages,
                   refreshes, toHost, fromMain>>

\* The failure path without the finally block of lines 162-164.
ConvertFail_keepFlag(t) ==
    /\ tasks[t].pc = "convert"
    /\ UNCHANGED isUpdating
    /\ errorMessages' = errorMessages \cup {"Error saving document", "Failed to save document"}
    /\ acks' = [acks EXCEPT ![tasks[t].doc] = Append(@,
            [success |-> FALSE, request |-> tasks[t].html, content |-> <<>>, via |-> "error",
             persisted |-> FALSE])]
    /\ tasks' = [tasks EXCEPT ![t] = FreeTask]
    /\ UNCHANGED <<editorOf, engineVars, configVars, instanceVars, pure, timeVars, brokerVars, webviewVars, docVars, refreshes, toHost, fromMain>>

\* A failure path that saves the document all the same.
ConvertFail_saves(t) ==
    /\ tasks[t].pc = "convert"
    /\ isUpdating' = FALSE
    /\ errorMessages' = errorMessages \cup {"Error saving document", "Failed to save document"}
    /\ acks' = [acks EXCEPT ![tasks[t].doc] = Append(@,
            [success |-> FALSE, request |-> tasks[t].html, content |-> <<>>, via |-> "error",
             persisted |-> FALSE])]
    /\ tasks' = [tasks EXCEPT ![t] = FreeTask]
    /\ savedText' = [savedText EXCEPT ![tasks[t].doc] = tasks[t].html]
    /\ UNCHANGED <<editorOf, engineVars, configVars, instanceVars, pure, timeVars, brokerVars, webviewVars, docText, modelText,
                   nExternal, refreshes, toHost, fromMain>>

\* convertHtmlToMarkdown rejects: catch (157-161), finally (163), then the
\* catch of the 'save' case (103-111).
ConvertFail(t) ==
    /\ tasks[t].pc = "convert"
    /\ isUpdating' = FALSE
    /\ errorMessages' = errorMessages \cup {"Error saving document", "Failed to save document"}
    /\ acks' = [acks EXCEPT ![tasks[t].doc] = Append(@,
            [success |-> FALSE, request |-> tasks[t].html, content |-> <<>>, via |-> "error",
             persisted |-> FALSE])]
    /\ tasks' = [tasks EXCEPT ![t] = FreeTask]
    /\ UNCHANGED <<editorOf, engineVars, configVars, instanceVars, pure, timeVars, brokerVars, webviewVars, docVars, refreshes, toHost, fromMain>>

\* The main thread runs the WorkspaceEdit: the text model is replaced and the
\* change event goes out before the reply.  ok = FALSE: the edit was refused.
MainApplyEdit(t, ok) ==
    /\ tasks[t].pc = "applyEdit"
    /\ LET d == tasks[t].doc
           changed == [kind |-> "changed", doc |-> d, text |-> tasks[t].newText, own |-> TRUE, task |-> t, ok |-> TRUE]
           reply == [kind |-> "applyReply", doc |-> d, text |-> <<>>, own |-> TRUE, task |-> t, ok |-> ok]
       IN /\ modelText' = [modelText EXCEPT ![d] = IF ok THEN tasks[t].newText ELSE @]
          /\ fromMain' = IF ok THEN fromMain \o <<changed, reply>> ELSE Append(fromMain, reply)
          /\ tasks' = [tasks EXCEPT ![t].pc = "applyWait",
                                    ![t].wrote = IF ok THEN tasks[t].newText ELSE <<>>]
    /\ UNCHANGED <<editorOf, engineVars, configVars, instanceVars, pure, timeVars, brokerVars, webviewVars, docText, savedText, nExternal, isUpdating, acks,
                   errorMessages, refreshes, toHost>>

\* The main thread saves the document: the disk gets the text model.
MainSave(t, ok) ==
    /\ tasks[t].pc = "save"
    /\ LET d == tasks[t].doc
       IN /\ savedText' = [savedText EXCEPT ![d] = IF ok THEN modelText[d] ELSE @]
          /\ fromMain' = Append(fromMain,
                [kind |-> "saveReply", doc |-> d, text |-> <<>>, own |-> TRUE, task |-> t, ok |-> ok])
          /\ tasks' = [tasks EXCEPT ![t].pc = "saveWait"]
    /\ UNCHANGED <<editorOf, engineVars, configVars, instanceVars, pure, timeVars, brokerVars, webviewVars, docText, modelText, nExternal, isUpdating, acks,
                   errorMessages, refreshes, toHost>>

\* The document is changed from outside the editor (another editor tab).
ExternalChange(d, c) ==
    /\ editorOf[d] # "none"
    /\ nExternal < MaxExternal
    /\ nExternal' = nExternal + 1
    /\ modelText' = [modelText EXCEPT ![d] = Md(c)]
    /\ fromMain' = Append(fromMain,
            [kind |-> "changed", doc |-> d, text |-> Md(c), own |-> FALSE, task |-> 0, ok |-> TRUE])
    /\ UNCHANGED <<editorOf, engineVars, configVars, instanceVars, pure, timeVars, brokerVars, webviewVars, docText, savedText, hostVars, toHost>>

\* updateWebview up to its await: read the document, start the conversion.
updateWebview(d, text, own) ==
    refreshes' = [refreshes EXCEPT ![d] = @ \cup {[md |-> text, own |-> own]}]

\* The onDidChangeTextDocument listener of resolveCustomTextEditor.
onDidChangeTextDocument(e) ==
    IF ~isUpdating
    THEN updateWebview(e.doc, e.text, e.own)
    ELSE UNCHANGED refreshes

\* The listener of alpha.extension.ts: the same test of its own flag.
onDidChangeTextDocumentAlpha(e) ==
    IF ~isUpdating
    THEN updateWebview(e.doc, e.text, e.own)
    ELSE UNCHANGED refreshes

\* The listener of alphaEditor.js: every change of the document refreshes.
onDidChangeTextDocumentAlphaJs(e) ==
    updateWebview(e.doc, e.text, e.own)

\* The extension host takes the next message of the main thread.
HostChanged ==
    /\ fromMain # <<>>
    /\ Head(fromMain).kind = "changed"
    /\ fromMain' = Tail(fromMain)
    /\ docText' = [docText EXCEPT ![Head(fromMain).doc] = Head(fromMain).text]
    /\ CASE editorOf[Head(fromMain).doc] = "V0" -> onDidChangeTextDocument(Head(fromMain))
         [] editorOf[Head(fromMain).doc] = "VA.ts" -> onDidChangeTextDocumentAlpha(Head(fromMain))
         [] editorOf[Head(fromMain).doc] = "VA.js" -> onDidChangeTextDocumentAlphaJs(Head(fromMain))
    /\ UNCHANGED <<editorOf, engineVars, configVars, instanceVars, pure, timeVars, brokerVars, webviewVars, modelText, savedText, nExternal, isUpdating, tasks,
                   acks, errorMessages, toHost>>

\* applyEdit resolves (its result is not looked at): call document.save().
HostApplyReply ==
    /\ fromMain # <<>>
    /\ Head(fromMain).kind = "applyReply"
    /\ editorOf[Head(fromMain).doc] = "V0"
    /\ fromMain' = Tail(fromMain)
    /\ tasks' = [tasks EXCEPT ![Head(fromMain).task].pc = "save"]
    /\ UNCHANGED <<editorOf, engineVars, configVars, instanceVars, pure, timeVars, brokerVars, webviewVars, docVars, isUpdating, acks, errorMessages, refreshes, toHost>>

\* document.save() resolves: return cleanMarkdown, finally clear the flag;
\* the 'save' case posts 'saved' with success: true.
HostSaveReply ==
    /\ fromMain # <<>>
    /\ Head(fromMain).kind = "saveReply"
    /\ editorOf[Head(fromMain).doc] = "V0"
    /\ LET t == Head(fromMain).task
       IN /\ isUpdating' = FALSE
          /\ acks' = [acks EXCEPT ![tasks[t].doc] = Append(@,
                [success |-> TRUE, request |-> tasks[t].html, content |-> tasks[t].newText, via |-> "commit",
                 persisted |-> tasks[t].wrote # <<>> /\ Head(fromMain).ok])]
          /\ tasks' = [tasks EXCEPT ![t] = FreeTask]
    /\ fromMain' = Tail(fromMain)
    /\ UNCHANGED <<editorOf, engineVars, configVars, instanceVars, pure, timeVars, brokerVars, webviewVars, docVars, errorMessages, refreshes, toHost>>

\* A refresh that replaces the DOM in place (as the page's 'update' message
\* would) and so leaves the page's timer armed.
RefreshDone_keepTimers(d, r) ==
    /\ r \in refreshes[d]
    /\ editorOf[d] = "V0"
    /\ refreshes' = [refreshes EXCEPT ![d] = @ \ {r}]
    /\ editorInnerHTML' = [editorInnerHTML EXCEPT ![d] = convertMarkdownToHtml(r.md)]
    /\ UNCHANGED <<editorOf, engineVars, configVars, instanceVars, pure, timeVars, brokerVars, timers, saveTimeout, updateTimeout, overwritten, lastEdit,
                   nPosted, lastContent, docVars, isUpdating, tasks, acks, errorMessages,
                   toHost, fromMain>>

\* The engine answers an updateWebview: webview.html is replaced, which
\* reloads the page: the DOM is the rendering and the page's timers are gone.
RefreshDone(d, r) ==
    /\ r \in refreshes[d]
    /\ editorOf[d] = "V0"
    /\ refreshes' = [refreshes EXCEPT ![d] = @ \ {r}]
    /\ editorInnerHTML' = [editorInnerHTML EXCEPT ![d] = convertMarkdownToHtml(r.md)]
    /\ timers' = [timers EXCEPT ![d] = {}]
    /\ saveTimeout' = [saveTimeout EXCEPT ![d] = 0]
    /\ overwritten' = [overwritten EXCEPT ![d] = FALSE]
    /\ runStart' = [runStart EXCEPT ![d] = -1]
    /\ UNCHANGED <<editorOf, engineVars, configVars, instanceVars, pure, now, due, brokerVars, lastEdit, nPosted, lastContent, updateTimeout, docVars, isUpdating, tasks, acks, errorMessages,
                   toHost, fromMain>>

\* The engine fails an updateWebview: the error is shown, the page stays.
RefreshFail(d, r) ==
    /\ r \in refreshes[d]
    /\ editorOf[d] = "V0"
    /\ refreshes' = [refreshes EXCEPT ![d] = @ \ {r}]
    /\ errorMessages' = errorMessages \cup {"Error rendering document"}
    /\ UNCHANGED <<editorOf, engineVars, configVars, instanceVars, pure, timeVars, brokerVars, webviewVars, docVars, isUpdating, tasks, acks, toHost, fromMain>>

\* ------------------------------------------------- VA.ts webview and host
HasEditor(d) == editorInnerHTML[d][1] # "error"

\* alpha.extension.ts, the page's 'input' listener: post 'edit' at once when
\* the content differs from lastContent.
AlphaInput(d, c) ==
    /\ editorOf[d] = "VA.ts"
    /\ HasEditor(d)
    /\ nPosted[d] < MaxSaves
    /\ editorInnerHTML' = [editorInnerHTML EXCEPT ![d] = Html(c)]
    /\ lastEdit' = [lastEdit EXCEPT ![d] = c]
    /\ IF Html(c) # lastContent[d]
       THEN /\ lastContent' = [lastContent EXCEPT ![d] = Html(c)]
            /\ toHost' = [toHost EXCEPT ![d] = Append(@,
                    [type |-> "edit", content |-> Html(c), trigger |-> c, replaced |-> FALSE])]
            /\ nPosted' = [nPosted EXCEPT ![d] = @ + 1]
       ELSE UNCHANGED <<lastContent, toHost, nPosted>>
    /\ UNCHANGED <<editorOf, engineVars, configVars, instanceVars, pure, timers, saveTimeout, updateTimeout, overwritten, timeVars, docVars,
                   hostVars, brokerVars, fromMain>>

\* alpha.extension.ts, the page's keydown listener: Ctrl+S posts 'save'.
AlphaCtrlS(d) ==
    /\ editorOf[d] = "VA.ts"
    /\ HasEditor(d)
    /\ nPosted[d] < MaxSaves
    /\ toHost' = [toHost EXCEPT ![d] = Append(@,
            [type |-> "save", content |-> <<>>, trigger |-> lastEdit[d], replaced |-> FALSE])]
    /\ nPosted' = [nPosted EXCEPT ![d] = @ + 1]
    /\ UNCHANGED <<editorOf, engineVars, configVars, instanceVars, pure, editorInnerHTML, timers, saveTimeout, updateTimeout, lastEdit,
                   overwritten, lastContent, timeVars, docVars, hostVars, brokerVars, fromMain>>

\* alpha.extension.ts, case 'edit': updateDocument sets the flag and calls
\* applyEdit with the content as it came.
AlphaHandleEdit(d) ==
    /\ editorOf[d] = "VA.ts"
    /\ toHost[d] # <<>>
    /\ Head(toHost[d]).type = "edit"
    /\ \E t \in TaskIds : Free(t)
    /\ toHost' = [toHost EXCEPT ![d] = Tail(@)]
    /\ isUpdating' = TRUE
    /\ tasks' = [tasks EXCEPT ![NewTask] =
           [pc |-> "applyEdit", doc |-> d, html |-> Head(toHost[d]).content,
            trigger |-> Head(toHost[d]).trigger, replaced |-> FALSE,
            newText |-> Head(toHost[d]).content, wrote |-> <<>>]]
    /\ UNCHANGED <<editorOf, engineVars, configVars, instanceVars, pure, timeVars, brokerVars, webviewVars, docVars, acks, errorMessages,
                   refreshes, fromMain>>

\* An updateDocument that clears the flag only when the edit was applied.
AlphaHostApplyReply_keepOnFail ==
    /\ fromMain # <<>>
    /\ Head(fromMain).kind = "applyReply"
    /\ editorOf[Head(fromMain).doc] = "VA.ts"
    /\ fromMain' = Tail(fromMain)
    /\ isUpdating' = IF Head(fromMain).ok THEN FALSE ELSE isUpdating
    /\ tasks' = [tasks EXCEPT ![Head(fromMain).task] = FreeTask]
    /\ UNCHANGED <<editorOf, engineVars, configVars, instanceVars, pure, timeVars, brokerVars, webviewVars, docVars, acks, errorMessages,
                   refreshes, toHost>>

\* alpha.extension.ts, updateDocument after applyEdit: clear the flag.
AlphaHostApplyReply ==
    /\ fromMain # <<>>
    /\ Head(fromMain).kind = "applyReply"
    /\ editorOf[Head(fromMain).doc] = "VA.ts"
    /\ fromMain' = Tail(fromMain)
    /\ isUpdating' = FALSE
    /\ tasks' = [tasks EXCEPT ![Head(fromMain).task] = FreeTask]
    /\ UNCHANGED <<editorOf, engineVars, configVars, instanceVars, pure, timeVars, brokerVars, webviewVars, docVars, acks, errorMessages,
                   refreshes, toHost>>

\* alpha.extension.ts, case 'save': document.save().
AlphaHandleSave(d) ==
    /\ editorOf[d] = "VA.ts"
    /\ toHost[d] # <<>>
    /\ Head(toHost[d]).type = "save"
    /\ \E t \in TaskIds : Free(t)
    /\ toHost' = [toHost EXCEPT ![d] = Tail(@)]
    /\ tasks' = [tasks EXCEPT ![NewTask] =
           [pc |-> "save", doc |-> d, html |-> <<>>, trigger |-> Head(toHost[d]).trigger,
            replaced |-> FALSE, newText |-> <<>>, wrote |-> <<>>]]
    /\ UNCHANGED <<editorOf, engineVars, configVars, instanceVars, pure, timeVars, brokerVars, webviewVars, docVars, isUpdating, acks,
                   errorMessages, refreshes, fromMain>>

\* alpha.extension.ts, case 'save' after document.save(): nothing more.
AlphaHostSaveReply ==
    /\ fromMain # <<>>
    /\ Head(fromMain).kind = "saveReply"
    /\ editorOf[Head(fromMain).doc] = "VA.ts"
    /\ fromMain' = Tail(fromMain)
    /\ tasks' = [tasks EXCEPT ![Head(fromMain).task] = FreeTask]
    /\ UNCHANGED <<editorOf, engineVars, configVars, instanceVars, pure, timeVars, brokerVars, webviewVars, docVars, isUpdating, acks,
                   errorMessages, refreshes, toHost>>

\* alpha.extension.ts, updateWebview after the engine: the page is replaced
\* by the rendering (ok) or by the error page, which has no editor.
AlphaRefreshDone(d, r, ok) ==
    /\ r \in refreshes[d]
    /\ editorOf[d] = "VA.ts"
    /\ refreshes' = [refreshes EXCEPT ![d] = @ \ {r}]
    /\ editorInnerHTML' = [editorInnerHTML EXCEPT ![d] =
            IF ok THEN convertMarkdownToHtml(r.md) ELSE <<"error", 0>>]
    /\ lastContent' = [lastContent EXCEPT ![d] =
            IF ok THEN convertMarkdownToHtml(r.md) ELSE @]
    /\ UNCHANGED <<editorOf, engineVars, configVars, instanceVars, pure, timers, saveTimeout, updateTimeout, lastEdit, nPosted, overwritten,
                   timeVars, docVars, isUpdating, tasks, acks, errorMessages, brokerVars,
                   toHost, fromMain>>

\* ------------------------------------------------------- VA.js webview
\* alphaEditor.js, handleContentChange: clear updateTimeout, arm a new timer.
AlphaJsInput(d, c) ==
    /\ editorOf[d] = "VA.js"
    /\ LET kept == timers[d] \ {updateTimeout[d]}
       IN /\ nPosted[d] + Cardinality(kept) < MaxSaves
          /\ \E id \in TimerIds :
                /\ id \notin kept
                /\ \A j \in TimerIds : j \notin kept => id <= j
                /\ timers' = [timers EXCEPT ![d] = kept \cup {id}]
                /\ updateTimeout' = [updateTimeout EXCEPT ![d] = id]
    /\ editorInnerHTML' = [editorInnerHTML EXCEPT ![d] = Html(c)]
    /\ lastEdit' = [lastEdit EXCEPT ![d] = c]
    /\ overwritten' = [overwritten EXCEPT ![d] =
            timers[d] # {} /\ (@ \/ editorInnerHTML[d] # Html(c))]
    /\ UNCHANGED <<editorOf, engineVars, configVars, instanceVars, pure, nPosted, lastContent, saveTimeout, timeVars, docVars, hostVars,
                   brokerVars, toHost, fromMain>>

\* alphaEditor.js, the callback of handleContentChange: post 'edit' with the
\* DOM as it is now, when it differs from lastContent.
AlphaJsTimerFire(d, id) ==
    /\ editorOf[d] = "VA.js"
    /\ id \in timers[d]
    /\ timers' = [timers EXCEPT ![d] = @ \ {id}]
    /\ overwritten' = [overwritten EXCEPT ![d] = FALSE]
    /\ IF editorInnerHTML[d] # lastContent[d]
       THEN /\ lastContent' = [lastContent EXCEPT ![d] = editorInnerHTML[d]]
            /\ toHost' = [toHost EXCEPT ![d] = Append(@,
                    [type |-> "edit", content |-> editorInnerHTML[d], trigger |-> lastEdit[d],
                     replaced |-> overwritten[d]])]
            /\ nPosted' = [nPosted EXCEPT ![d] = @ + 1]
       ELSE UNCHANGED <<lastContent, toHost, nPosted>>
    /\ UNCHANGED <<editorOf, engineVars, configVars, instanceVars, pure, editorInnerHTML, saveTimeout, updateTimeout, lastEdit, timeVars,
                   docVars, hostVars, brokerVars, fromMain>>

\* alphaEditor.js, the keydown listener: Ctrl+S posts 'save' with the DOM.
AlphaJsCtrlS(d) ==
    /\ editorOf[d] = "VA.js"
    /\ nPosted[d] + Cardinality(timers[d]) < MaxSaves
    /\ toHost' = [toHost EXCEPT ![d] = Append(@,
            [type |-> "save", content |-> editorInnerHTML[d], trigger |-> lastEdit[d],
             replaced |-> FALSE])]
    /\ nPosted' = [nPosted EXCEPT ![d] = @ + 1]
    /\ UNCHANGED <<editorOf, engineVars, configVars, instanceVars, pure, editorInnerHTML, timers, saveTimeout, updateTimeout, lastEdit,
                   overwritten, lastContent, timeVars, docVars, hostVars, brokerVars, fromMain>>

\* ---------------------------------------------------------- VA.js host
\* alphaEditor.js, case 'edit': updateDocument calls applyEdit with the
\* content as it came; there is no flag.
AlphaJsHandleEdit(d) ==
    /\ editorOf[d] = "VA.js"
    /\ toHost[d] # <<>>
    /\ Head(toHost[d]).type = "edit"
    /\ \E t \in TaskIds : Free(t)
    /\ toHost' = [toHost EXCEPT ![d] = Tail(@)]
    /\ tasks' = [tasks EXCEPT ![NewTask] =
           [pc |-> "applyEdit", doc |-> d, html |-> Head(toHost[d]).content,
            trigger |-> Head(toHost[d]).trigger, replaced |-> Head(toHost[d]).replaced,
            newText |-> Head(toHost[d]).content, wrote |-> <<>>]]
    /\ UNCHANGED <<editorOf, engineVars, configVars, instanceVars, pure, timeVars, brokerVars, webviewVars, docVars, isUpdating, acks,
                   errorMessages, refreshes, fromMain>>

\* alphaEditor.js, updateDocument after applyEdit.
AlphaJsHostApplyReply ==
    /\ fromMain # <<>>
    /\ Head(fromMain).kind = "applyReply"
    /\ editorOf[Head(fromMain).doc] = "VA.js"
    /\ fromMain' = Tail(fromMain)
    /\ tasks' = [tasks EXCEPT ![Head(fromMain).task] = FreeTask]
    /\ UNCHANGED <<editorOf, engineVars, configVars, instanceVars, pure, timeVars, brokerVars, webviewVars, docVars, isUpdating, acks,
                   errorMessages, refreshes, toHost>>

\* alphaEditor.js, convertMarkdownToHtml: HTML passes as it is; when the
\* engine fails the text is wrapped in a <div>.
convertMarkdownToHtmlAlphaJs(content, engineOk) ==
    IF content[1] # "md" THEN content
    ELSE IF engineOk THEN convertMarkdownToHtml(content)
    ELSE <<"div", content[2]>>

\* alphaEditor.js, updateWebview after the engine: the page is replaced, its
\* script starts again with lastContent = editor.innerHTML and no timer.
AlphaJsRefreshDone(d, r, engineOk) ==
    /\ r \in refreshes[d]
    /\ editorOf[d] = "VA.js"
    /\ refreshes' = [refreshes EXCEPT ![d] = @ \ {r}]
    /\ editorInnerHTML' = [editorInnerHTML EXCEPT ![d] = convertMarkdownToHtmlAlphaJs(r.md, engineOk)]
    /\ lastContent' = [lastContent EXCEPT ![d] = convertMarkdownToHtmlAlphaJs(r.md, engineOk)]
    /\ timers' = [timers EXCEPT ![d] = {}]
    /\ updateTimeout' = [updateTimeout EXCEPT ![d] = 0]
    /\ overwritten' = [overwritten EXCEPT ![d] = FALSE]
    /\ UNCHANGED <<editorOf, engineVars, configVars, instanceVars, pure, saveTimeout, lastEdit, nPosted, timeVars, docVars, isUpdating,
                   tasks, acks, errorMessages, brokerVars, toHost, fromMain>>

\* ------------------------------------------------------------ FileBroker
\* The broker commits one save of a document at a time; a save requested
\* during a commit is the pending entry, which a later request replaces.
\* t is the updateDocument/saveDocument call that waits for it (0: none).
saveFile(d, content, t) ==
    /\ nPersists' = [nPersists EXCEPT ![d] = @ + 1]
    /\ IF broker[d].pc = "idle"
       THEN /\ broker' = [broker EXCEPT ![d] =
                    [pc |-> "convert", payload |-> content, text |-> <<>>, callers |-> {t} \ {0}]]
            /\ UNCHANGED brokerPending
       ELSE /\ brokerPending' = [brokerPending EXCEPT ![d] =
                    [content |-> content, callers |-> @.callers \cup ({t} \ {0})]]
            /\ UNCHANGED broker

\* The commit of d ends: its callers are answered, the pending entry (if
\* any) becomes the next commit.
BrokerFinish(d, ok) ==
    /\ tasks' = [t \in TaskIds |->
            IF t \in broker[d].callers
            THEN [tasks[t] EXCEPT !.pc = IF ok THEN "saved" ELSE "saveFailed"]
            ELSE tasks[t]]
    /\ broker' = [broker EXCEPT ![d] =
            IF brokerPending[d] = NoPending THEN BrokerIdle
            ELSE [pc |-> "convert", payload |-> brokerPending[d].content, text |-> <<>>,
                  callers |-> brokerPending[d].callers]]
    /\ brokerPending' = [brokerPending EXCEPT ![d] = NoPending]

\* The payload is converted to canonical text (or the engine fails).
BrokerConvert(d, ok) ==
    /\ broker[d].pc = "convert"
    /\ IF ok
       THEN /\ broker' = [broker EXCEPT ![d].pc = "backup",
                                        ![d].text = convertHtmlToMarkdown(broker[d].payload)]
            /\ UNCHANGED <<tasks, brokerPending>>
       ELSE BrokerFinish(d, FALSE)
    /\ UNCHANGED <<editorOf, engineVars, configVars, instanceVars, pure, timeVars, webviewVars, docVars, isUpdating, acks, errorMessages,
                   refreshes, backups, clock, made, nPersists, toHost, fromMain>>

\* persist, first step: copy the document on disk to a backup named by the
\* path and the current timestamp.  When the copy fails the persist ends.
BrokerBackup(d, ok) ==
    /\ broker[d].pc = "backup"
    /\ IF ok
       THEN /\ backups' = [backups EXCEPT ![d] = @ \cup {[ts |-> clock, content |-> savedText[d]]}]
            /\ made' = [made EXCEPT ![d] = @ \cup {clock}]
            /\ clock' = clock + 1
            /\ broker' = [broker EXCEPT ![d].pc = "prune"]
            /\ UNCHANGED <<tasks, brokerPending>>
       ELSE /\ BrokerFinish(d, FALSE)
            /\ UNCHANGED <<backups, made, clock>>
    /\ UNCHANGED <<editorOf, engineVars, configVars, instanceVars, pure, timeVars, webviewVars, docVars, isUpdating, acks, errorMessages,
                   refreshes, nPersists, toHost, fromMain>>

\* Retention: the backups sorted by timestamp, newest first, cut after the
\* MaxBackups-th.
pruneBackups_keepOldest(bs) ==
    {b \in bs : Cardinality({x \in bs : x.ts < b.ts}) < MaxBackups}

pruneBackups(bs) ==
    {b \in bs : Cardinality({x \in bs : x.ts > b.ts}) < MaxBackups}

\* persist, retention after the new backup.
BrokerPrune(d) ==
    /\ broker[d].pc = "prune"
    /\ backups' = [backups EXCEPT ![d] = pruneBackups(@)]
    /\ broker' = [broker EXCEPT ![d].pc = "overwrite"]
    /\ UNCHANGED <<editorOf, engineVars, configVars, instanceVars, pure, timeVars, webviewVars, docVars, hostVars, clock, brokerPending,
                   made, nPersists, toHost, fromMain>>

\* persist, last step: the document on disk is overwritten.
BrokerOverwrite(d, ok) ==
    /\ broker[d].pc = "overwrite"
    /\ savedText' = [savedText EXCEPT ![d] = IF ok THEN broker[d].text ELSE @]
    /\ BrokerFinish(d, ok)
    /\ UNCHANGED <<editorOf, engineVars, configVars, instanceVars, pure, timeVars, webviewVars, docText, modelText, nExternal, isUpdating,
                   acks, errorMessages, refreshes, backups, clock, made, nPersists, toHost,
                   fromMain>>

\* A save request on a document the broker serves directly.
SaveFileCall(d, c) ==
    /\ editorOf[d] = "broker"
    /\ nPersists[d] < MaxPersists
    /\ saveFile(d, Html(c), 0)
    /\ UNCHANGED <<editorOf, engineVars, configVars, instanceVars, pure, timeVars, webviewVars, docVars, hostVars, backups, clock, made,
                   toHost, fromMain>>

\* alphaEditor.js, case 'save': saveDocument calls fileBroker.saveFile.
AlphaJsHandleSave(d) ==
    /\ editorOf[d] = "VA.js"
    /\ toHost[d] # <<>>
    /\ Head(toHost[d]).type = "save"
    /\ \E t \in TaskIds : Free(t)
    /\ toHost' = [toHost EXCEPT ![d] = Tail(@)]
    /\ tasks' = [tasks EXCEPT ![NewTask] =
           [pc |-> "saveFile", doc |-> d, html |-> Head(toHost[d]).content,
            trigger |-> Head(toHost[d]).trigger, replaced |-> FALSE,
            newText |-> <<>>, wrote |-> <<>>]]
    /\ saveFile(d, Head(toHost[d]).content, NewTask)
    /\ UNCHANGED <<editorOf, engineVars, configVars, instanceVars, pure, timeVars, webviewVars, docVars, isUpdating, acks, errorMessages,
                   refreshes, backups, clock, made, fromMain>>

\* alphaEditor.js, saveDocument returns true, or false after showing the
\* error; the 'save' case posts 'saved' with that value.
AlphaJsSaveDone(t) ==
    /\ tasks[t].pc \in {"saved", "saveFailed"}
    /\ acks' = [acks EXCEPT ![tasks[t].doc] = Append(@,
            [success |-> tasks[t].pc = "saved", request |-> tasks[t].html, content |-> <<>>,
             via |-> IF tasks[t].pc = "saved" THEN "commit" ELSE "error",
             persisted |-> tasks[t].pc = "saved"])]
    /\ errorMessages' = IF tasks[t].pc = "saved" THEN errorMessages
                        ELSE errorMessages \cup {"Failed to save file"}
    /\ tasks' = [tasks EXCEPT ![t] = FreeTask]
    /\ UNCHANGED <<editorOf, engineVars, configVars, instanceVars, pure, timeVars, webviewVars, docVars, isUpdating, refreshes, brokerVars,
                   toHost, fromMain>>

\* ------------------------------------------------------------ the claims
V0Docs == {d \in Docs : editorOf[d] = "V0"}
TasksOf(d) == {t \in ActiveTasks : tasks[t].doc = d}
AcksVia(d, v) == {i \in DOMAIN acks[d] : acks[d][i].via = v}

\* C1: the content a commit converts and writes is the content of the most
\* recent input event at the moment the timer triggered the commit: the
\* 'save' message, the commit's payload, the text it writes and the text it
\* acknowledges all come from that edit, never from a superseded one.
C1_CommitFreshness ==
    \A d \in V0Docs :
        /\ \A i \in DOMAIN toHost[d] : toHost[d][i].content = Html(toHost[d][i].trigger)
        /\ \A t \in TasksOf(d) :
              /\ tasks[t].html = Html(tasks[t].trigger)
              /\ tasks[t].wrote # <<>> => tasks[t].wrote = Md(tasks[t].trigger)
        /\ \A i \in AcksVia(d, "commit") : acks[d][i].content[2] = acks[d][i].request[2]

\* C1 witness: a commit has written the edit that replaced an earlier
\* pending edit of other content.
C1_Witness ==
    \E d \in V0Docs : \E t \in TasksOf(d) :
        /\ tasks[t].replaced
        /\ tasks[t].pc = "saveWait"
        /\ tasks[t].wrote = Md(tasks[t].trigger)
        /\ savedText[d] = tasks[t].wrote

\* C2 (as claimed): every 'save' notification the host has handled got a
\* commit of its own content; none was discarded.
C2_NoEditDropped ==
    \A d \in V0Docs : AcksVia(d, "skip") = {}

\* C3: at most one commit of a document is between its start and its end.
C3_NoConcurrentCommits ==
    \A d \in V0Docs : Cardinality(TasksOf(d)) <= 1

\* C3 witness: a commit is running and a notification that arrived during
\* it has been handled.
C3_Witness ==
    \E d \in V0Docs :
        /\ TasksOf(d) # {}
        /\ AcksVia(d, "skip") # {}
        /\ acks[d][Len(acks[d])].via = "skip"

\* C4 (as claimed): once two commit signals have been handled and nothing
\* failed, two persists have been executed.
C4_TwoSignalsTwoPersists ==
    \A d \in V0Docs :
        (/\ nPosted[d] = 2
         /\ toHost[d] = <<>>
         /\ TasksOf(d) = {}
         /\ AcksVia(d, "error") = {})
        => Cardinality(AcksVia(d, "commit")) = 2

\* The documents whose webview debounces its input events.
DebouncedDocs == {d \in Docs : editorOf[d] \in {"V0", "VA.js"}}

\* C5 (as claimed): while a run of edits is pending, no more than the
\* staleness ceiling has passed since the first edit of the run.
C5_StalenessBound ==
    \A d \in V0Docs : timers[d] # {} => now - runStart[d] <= StalenessCeilingMs

\* C6: one pending entry per document: at most one debounce timer is armed,
\* it is the one the script's timeout variable names, and the pending
\* content is that of the latest edit.
C6_OnePendingEntry ==
    \A d \in DebouncedDocs :
        /\ Cardinality(timers[d]) <= 1
        /\ timers[d] # {} =>
              /\ timers[d] = {IF editorOf[d] = "V0" THEN saveTimeout[d] ELSE updateTimeout[d]}
              /\ editorInnerHTML[d] = Html(lastEdit[d])

\* C6 witness: an edit has replaced a pending edit and one timer is armed.
C6_Witness ==
    \E d \in V0Docs : overwritten[d] /\ Cardinality(timers[d]) = 1

\* C7 (as claimed): the document, in the editor and on disk, only ever
\* holds canonical text; the host never writes editable markup into it.
C7_OnlyCanonicalText ==
    \A d \in Docs : modelText[d][1] = "md" /\ savedText[d][1] = "md"

\* C8 (as claimed): the change notification of the editor's own write never
\* starts a refresh of the webview.
C8_EchoSuppression ==
    \A d \in Docs : editorOf[d] \in {"V0", "VA.ts"}
        => \A r \in refreshes[d] : ~r.own

\* The same for the V0 editor alone, whose single commit at a time keeps the
\* flag set until the notification has been delivered.
EchoSuppressionV0 ==
    \A d \in V0Docs : \A r \in refreshes[d] : ~r.own

\* C9 (as claimed): a commit overwrites the document on disk only when a
\* backup holds the content being replaced.
C9_BackupBeforeOverwrite ==
    [][\A d \in Docs :
          savedText'[d] # savedText[d]
          => \E b \in backups[d] : b.content = savedText[d]]_vars

\* C12: a commit that ends, with success or with an error, leaves the
\* editor idle: isUpdating is set exactly while an updateDocument call of
\* the editor is running, and a call starts only when a message of the
\* webview is handled (a failed commit is not started again by itself).
C12_ReturnsToIdle ==
    [][/\ (V0Docs # {}) => (isUpdating' <=> \E t \in TaskIds : tasks'[t].pc # "free")
       /\ \A t \in TaskIds :
             (tasks[t].pc = "free" /\ tasks'[t].pc # "free")
             => toHost'[tasks'[t].doc] = Tail(toHost[tasks'[t].doc])]_vars

\* C12 witness: a commit has failed and a later 'save' has started a new
\* commit.
C12_Witness ==
    \E d \in V0Docs :
        /\ AcksVia(d, "error") # {}
        /\ \E t \in TasksOf(d) : tasks[t].pc = "convert"
        /\ isUpdating

\* C13 (as claimed): whenever the host handles a 'save' request, whatever
\* the state of the document, a commit of the request's content starts in
\* that very step.
C13_ExplicitSaveCommits ==
    [][\A d \in Docs :
          (/\ editorOf[d] \in {"V0", "VA.js"}
           /\ toHost[d] # <<>>
           /\ Head(toHost[d]).type = "save"
           /\ toHost'[d] = Tail(toHost[d]))
          => \E t \in TaskIds :
                /\ tasks[t].pc = "free"
                /\ tasks'[t].pc # "free"
                /\ tasks'[t].doc = d
                /\ tasks'[t].html = Head(toHost[d]).content]_vars

\* C14 (as claimed): a 'save' notification of a document is skipped only
\* because of a commit of that same document, never because of a commit of
\* another one.
C14_DocumentsIndependent ==
    [][\A d \in V0Docs :
          (/\ Len(acks'[d]) = Len(acks[d]) + 1
           /\ acks'[d][Len(acks'[d])].via = "skip")
          => TasksOf(d) # {}]_vars

\* C11 (as claimed): a save whose conversion or write to disk failed is
\* answered with success: false and an error message is shown; it is never
\* answered with success: true.
C11_FailedSaveNotified ==
    \A d \in Docs : \A i \in DOMAIN acks[d] :
        (acks[d][i].via \in {"commit", "error"} /\ ~acks[d][i].persisted)
        => /\ ~acks[d][i].success
           /\ errorMessages \cap {"Failed to save document", "Failed to save file"} # {}

\* The n largest of a set of timestamps.
Newest(ts, n) == {x \in ts : Cardinality({y \in ts : y > x}) < n}

\* C10: once retention has run, at most MaxBackups backups of a document
\* exist and they are the most recent ones made; after seven persists
\* exactly five remain and the two oldest are gone.
C10_BackupCap ==
    \A d \in Docs : broker[d].pc # "prune" =>
        /\ Cardinality(backups[d]) <= MaxBackups
        /\ {b.ts : b \in backups[d]} = Newest(made[d], MaxBackups)
        /\ Cardinality(made[d]) = MaxBackups + 2 =>
              /\ Cardinality(backups[d]) = MaxBackups
              /\ \A x \in made[d] :
                    Cardinality({y \in made[d] : y < x}) < 2
                    => x \notin {b.ts : b \in backups[d]}

\* C10 witness: seven persists of a document have completed and five
\* backups remain.
C10_Witness ==
    \E d \in Docs :
        /\ broker[d].pc = "idle"
        /\ Cardinality(made[d]) = MaxBackups + 2
        /\ Cardinality(backups[d]) = MaxBackups

\* The updateDocument calls of alpha.extension.ts that have not ended.
AlphaUpdating ==
    {t \in TaskIds : tasks[t].pc \in {"applyEdit", "applyWait"} /\ editorOf[tasks[t].doc] = "VA.ts"}

C33_SuccessMeansPersisted ==
    \A d \in Docs : \A i \in DOMAIN acks[d] :
        (editorOf[d] = "V0" /\ acks[d][i].success)
        => /\ acks[d][i].via = "commit"
           /\ acks[d][i].persisted
           /\ acks[d][i].content = convertHtmlToMarkdown(acks[d][i].request)

\* C34: from the start of a PandocEditor.updateDocument call to the failure
\* of its conversion (every step in which the call is at its conversion
\* before or after the step, and has not passed it after the step), the
\* call writes nothing: the saved document is the same, the text of the
\* document changes only by a change from outside, and no edit or save of
\* the call is under way afterwards.
C34_FailedConversionFrame ==
    [][\A t \in TaskIds :
          LET d == IF tasks[t].pc = "convert" THEN tasks[t].doc ELSE tasks'[t].doc
          IN (/\ tasks[t].pc = "convert" \/ tasks'[t].pc = "convert"
              /\ tasks'[t].pc \in {"convert", "free"}
              /\ editorOf[d] = "V0")
             => /\ savedText'[d] = savedText[d]
                /\ modelText'[d] # modelText[d] => nExternal' = nExternal + 1
                /\ tasks'[t].wrote = <<>>]_vars

\* A save request whose conversion failed was answered; the saved document
\* is the one from before the call.
C34_Witness ==
    /\ editorOf["A"] = "V0"
    /\ Len(acks["A"]) = 1
    /\ acks["A"][1].via = "error"
    /\ ~acks["A"][1].success
    /\ ActiveTasks = {}
    /\ savedText["A"] = Md(0)
    /\ modelText["A"] = Md(0)

\* C36: a change of the document that the editor's own write did not cause
\* leads to a webview refresh that shows it, also when its notification
\* arrives during an updateDocument call.  Refreshes are started by the
\* change listener only, so the refresh of the changed text has to be
\* started in the step that handles the notification.
C36_OutsideChangeRefreshes ==
    [][(/\ fromMain # <<>>
        /\ Head(fromMain).kind = "changed"
        /\ ~Head(fromMain).own
        /\ editorOf[Head(fromMain).doc] = "V0"
        /\ fromMain' = Tail(fromMain))
       => [md |-> Head(fromMain).text, own |-> FALSE] \in refreshes'[Head(fromMain).doc]]_vars

Next ==
    \/ \E d \in Docs, c \in Contents : Input(d, c)
    \/ \E d \in Docs, id \in TimerIds : TimerFire(d, id)
    \/ \E d \in Docs : HandleSave(d)
    \/ \E t \in TaskIds : ConvertOk(t)
    \/ \E t \in TaskIds : ConvertFail(t)
    \/ \E t \in TaskIds, ok \in BOOLEAN : MainApplyEdit(t, ok)
    \/ \E t \in TaskIds, ok \in BOOLEAN : MainSave(t, ok)
    \/ \E d \in Docs, c \in Contents : ExternalChange(d, c)
    \/ HostChanged
    \/ HostApplyReply
    \/ HostSaveReply
    \/ \E d \in Docs : \E r \in refreshes[d] : RefreshDone(d, r)
    \/ \E d \in Docs : \E r \in refreshes[d] : RefreshFail(d, r)
    \/ \E d \in Docs, c \in Contents : AlphaInput(d, c)
    \/ \E d \in Docs : AlphaCtrlS(d)
    \/ \E d \in Docs : AlphaHandleEdit(d)
    \/ AlphaHostApplyReply
    \/ \E d \in Docs : AlphaHandleSave(d)
    \/ AlphaHostSaveReply
    \/ \E d \in Docs : \E r \in refreshes[d] : \E ok \in BOOLEAN : AlphaRefreshDone(d, r, ok)
    \/ \E d \in Docs, c \in Contents : AlphaJsInput(d, c)
    \/ \E d \in Docs, id \in TimerIds : AlphaJsTimerFire(d, id)
    \/ \E d \in Docs : AlphaJsCtrlS(d)
    \/ \E d \in Docs : AlphaJsHandleEdit(d)
    \/ AlphaJsHostApplyReply
    \/ \E d \in Docs : \E r \in refreshes[d] : \E ok \in BOOLEAN : AlphaJsRefreshDone(d, r, ok)
    \/ \E d \in Docs : AlphaJsHandleSave(d)
    \/ \E t \in TaskIds : AlphaJsSaveDone(t)
    \/ \E d \in Docs, ok \in BOOLEAN : BrokerConvert(d, ok)
    \/ \E d \in Docs, ok \in BOOLEAN : BrokerBackup(d, ok)
    \/ \E d \in Docs : BrokerPrune(d)
    \/ \E d \in Docs, ok \in BOOLEAN : BrokerOverwrite(d, ok)

Spec == Init /\ [][Next]_vars

\* The PandocHandler alone, with its callers and the engine process.
InitHandler ==
    /\ editorOf = [d \in Docs |-> "none"]
    /\ InitCommon
    /\ pure = NoPure

NextHandler ==
    \/ InitializeStart
    \/ \E available \in BOOLEAN : InitializeDone(available)
    \/ \E html \in HtmlInputs : CallConvertHtmlToMarkdown(html)
    \/ \E markdown \in MarkdownInputs, options \in CallOptions :
           CallConvertMarkdownToHtml(markdown, options)
    \/ \E content \in {<<"text">>}, from \in Formats, to \in Formats, options \in CallOptions :
           CallConvertString(content, from, to, options)
    \/ ProcSpawned
    \/ ProcError
    \/ \E chunk \in OutChunks : StdoutData(chunk)
    \/ \E chunk \in ErrChunks : StderrData(chunk)
    \/ \E code \in {Null} \cup {Some(c) : c \in ExitCodes \cup {-2}} : ProcClose(code)
    \/ ProcHang
    \/ ExecSettled
    \/ \E ok \in BOOLEAN : PrettierDone(ok)

SpecHandler == InitHandler /\ [][NextHandler]_vars

\* ------------------------------------------------- claims on PandocHandler
\* The engine process of the current invocation has exited by itself (it had
\* started, and 'close' delivered an exit code).
Exited == proc.state = "closed" /\ proc.code \in {Some(c) : c \in ExitCodes}

\* The conversion call has returned to its caller.
Returned == call.pc = "none" /\ result.kind # "none"

\* C15: an engine invocation whose process exits with code 0 resolves with
\* the concatenation of the stdout chunks in arrival order; one that exits
\* with a code c # 0 is rejected with a PandocError whose exitCode is c, whose
\* stderr is the concatenation of the stderr chunks in arrival order and
\* whose args are the invocation's arguments; the caller of the conversion
\* receives that value, or that error with its fields unchanged.
C15_ExitMapping ==
    Exited =>
        /\ proc.code = Some(0) =>
               /\ promise = [state |-> "resolved", value |-> Concat(proc.out)]
               /\ (Returned /\ log[1].step = "spawn") =>
                      (result.kind = "value" /\ result.value = Concat(proc.out))
        /\ proc.code # Some(0) =>
               /\ promise.state = "rejected"
               /\ promise.error.name = "PandocError"
               /\ promise.error.exitCode = proc.code
               /\ promise.error.stderr = Concat(proc.err)
               /\ promise.error.args = proc.args
               /\ Returned => result = [kind |-> "error", error |-> promise.error]

C15_Witness ==
    /\ Exited
    /\ proc.code = Some(1)
    /\ proc.err = <<<<"unknown ">>, <<"option">>>>
    /\ Returned
    /\ result.kind = "error"
    /\ result.error.exitCode = Some(1)
    /\ result.error.stderr = <<"unknown ", "option">>
    /\ result.error.args = HtmlToRawMarkdownArgs

\* The engine process of the current invocation could not be started.
StartFailed == proc.state = "failed" \/ (proc.state = "closed" /\ proc.code = Some(-2))

\* C16: when the engine process fails to start, the invocation is rejected
\* with a PandocError that carries the OS error text, exit code null and the
\* invocation's arguments, and a 'close' event that follows does not replace
\* that outcome; the caller receives this error.
C16_StartFailure ==
    StartFailed =>
        /\ promise = [state |-> "rejected",
                      error |-> PandocError(<<"Failed to start Pandoc">>,
                                            <<"spawn pandoc ENOENT">>, Null, proc.args)]
        /\ Returned => result = [kind |-> "error", error |-> promise.error]

C16_Witness ==
    /\ proc.state = "closed"
    /\ proc.code = Some(-2)
    /\ Returned
    /\ result.kind = "error"
    /\ result.error.exitCode = Null
    /\ result.error.stderr = <<"spawn pandoc ENOENT">>

\* A step that settles the pending promise of the invocation.
SettlingStep == NextHandler /\ promise.state = "pending" /\ promise'.state # "pending"

\* C17: every engine invocation is bounded by a timeout: while the
\* invocation is pending, also with a process that never exits, a step that
\* settles it (with TimedOut at the latest) is possible.
C17_InvocationBounded == promise.state = "pending" => ENABLED SettlingStep

\* C18: a conversion operation called while the handler is not ready
\* spawns no process and fails; isReady is true only after initialize() found
\* the engine available, and is false after a check that did not.
C18_NotReady ==
    [][/\ (nCalls' = nCalls + 1 /\ ~isReady) =>
              /\ nSpawned' = nSpawned
              /\ proc' = NoProc
              /\ result'.kind = "error" \/ (call'.pc = "exec" /\ promise'.state = "rejected")
       /\ (call.pc = "exec" /\ promise.state = "rejected" /\ call'.pc = "none") =>
              result'.kind = "error"
       /\ isReady' => initPc' \in {"available", "checking"}
       /\ (~isReady /\ isReady') => initPc' = "available"
       /\ initPc' = "unavailable" => ~isReady']_vars

C18_Witness ==
    /\ ~isReady
    /\ initPc = "unavailable"
    /\ nCalls = 1
    /\ nSpawned = 0
    /\ Returned
    /\ result.kind = "error"
    /\ result.error.message = <<"Failed to convert HTML to Markdown: ",
                                "PandocHandler is not initialized or Pandoc is unavailable.">>

\* A call of convertHtmlToMarkdown has returned a value.
HtmlToMarkdownReturned ==
    Returned /\ result.kind = "value" /\ Len(log) > 0 /\ log[1].step = "cleanIncomingHtml"

\* C19: a successful convertHtmlToMarkdown has run, in this order and each
\* once: the pre-clean of the markup, one engine invocation on the cleaned
\* markup with --from=html-native_divs-native_spans --to=commonmark_x
\* --wrap=none, the post-clean of the engine's output, and the pretty-printing
\* of the post-cleaned text.
C19_PipelineOrder ==
    HtmlToMarkdownReturned =>
        /\ [i \in 1..Len(log) |-> log[i].step]
              = <<"cleanIncomingHtml", "spawn", "postProcessPandocMarkdown", "prettier.format">>
        /\ log[2].args = <<"--from=html-native_divs-native_spans", "--to=commonmark_x",
                           "--wrap=none">>
        /\ log[2].input = cleanIncomingHtml(log[1].input)
        /\ proc.args = log[2].args
        /\ proc.stdin = log[2].input
        /\ log[3].input = Concat(proc.out)
        /\ log[4].input = postProcessPandocMarkdown(log[3].input)
        /\ result.value \in {log[4].input, prettierFormat(log[4].input)}

C19_Witness ==
    /\ HtmlToMarkdownReturned
    /\ log[1].input = <<"<div>", " ", "</div>", "text">>
    /\ log[2].input = <<"text">>
    /\ proc.out = << <<"\n", "\n">>, <<"text">> >>
    /\ log[4].input = <<"text">>
    /\ result.value = <<"text", "\n">>

\* C20: when the pretty-printer fails, convertHtmlToMarkdown returns the
\* post-cleaned text as it is; the failure is not the call's failure.
C20_PrettierFallback ==
    [][(call.pc = "prettier" /\ call'.pc = "none") =>
          /\ call.processed = postProcessPandocMarkdown(promise.value)
          /\ result'.kind = "value"
          /\ result'.value = IF result'.formatted THEN prettierFormat(call.processed)
                             ELSE call.processed]_vars

C20_Witness ==
    /\ HtmlToMarkdownReturned
    /\ ~result.formatted
    /\ result.value = postProcessPandocMarkdown(Concat(proc.out))
    /\ result.value # prettierFormat(result.value)

\* The call fails: it was awaiting the engine invocation, which is rejected.
CallFails == call.pc = "exec" /\ promise.state = "rejected" /\ call'.pc = "none"

\* C21: in convertHtmlToMarkdown and convertMarkdownToHtml a failure that is
\* a PandocError reaches the caller unchanged; any other failure reaches it
\* as a PandocError whose message is 'Failed to convert HTML to Markdown: '
\* or 'Failed to convert Markdown to HTML: ' followed by the cause's message.
C21_ErrorWrapping ==
    [][(CallFails /\ call.op \in {"convertHtmlToMarkdown", "convertMarkdownToHtml"}) =>
          /\ result'.kind = "error"
          /\ result'.error.name = "PandocError"
          /\ IF promise.error.name = "PandocError"
             THEN result'.error = promise.error
             ELSE result'.error.message =
                     <<IF call.op = "convertHtmlToMarkdown"
                       THEN "Failed to convert HTML to Markdown: "
                       ELSE "Failed to convert Markdown to HTML: ">>
                     \o promise.error.message]_vars

C21_Witness ==
    /\ Returned
    /\ result.kind = "error"
    /\ promise.state = "rejected"
    /\ promise.error.name = "Error"
    /\ result.error.name = "PandocError"
    /\ result.error.message = <<"Failed to convert Markdown to HTML: ">> \o promise.error.message

\* convertString starts a call.
ConvertStringStarts == call.pc = "none" /\ call'.pc = "exec" /\ call'.entry = "convertString"

\* The --from and --to arguments of the editable/canonical pair.
SpecialPairs == {<<"--from=html", "--to=markdown">>, <<"--from=markdown", "--to=html">>}

\* C22: convertString goes to the specialised conversion whenever (from, to)
\* is html to markdown or markdown to html; for every other pair it invokes
\* the engine once with the generic arguments on the content as given, and
\* returns the engine's output as it is.
C22_GenericDispatch ==
    [][/\ (ConvertStringStarts /\ call'.op = "convertString") =>
              /\ <<proc'.args[1], proc'.args[2]>> \notin SpecialPairs
              /\ nSpawned' = nSpawned + 1
              /\ proc'.stdin = call'.input
       /\ (call.pc = "exec" /\ call.op = "convertString" /\ promise.state = "resolved"
             /\ call'.pc = "none") =>
              result' = [kind |-> "value", value |-> Concat(proc.out), formatted |-> FALSE]]_vars

\* C23: convertMarkdownToHtml invokes the engine with the math-aware dialect
\* and --mathjax when the math option is set, and with exactly the generic
\* arguments of buildPandocArgs when it is not.
C23_MathArgs ==
    (call.op = "convertMarkdownToHtml" /\ proc.state # "none") =>
        IF call.options.mathjax
        THEN /\ proc.args[1] = "--from=markdown+tex_math_dollars"
             /\ \E i \in DOMAIN proc.args : proc.args[i] = "--mathjax"
        ELSE proc.args = buildPandocArgs("markdown", "html", call.options)

\* The flags that name the input format, the output format and MathJax.
IsFromFlag(arg) ==
    arg \in {"--from=" \o f : f \in Formats \cup {"markdown+tex_math_dollars",
                                                   "html-native_divs-native_spans"}}
IsToFlag(arg) == arg \in {"--to=" \o f : f \in Formats \cup {"commonmark_x"}}
IsMathjaxFlag(arg) == arg = "--mathjax"

\* C38: every argument vector the handler passes to the engine has exactly
\* one --from= flag, exactly one --to= flag and at most one --mathjax.
C38_FlagsOnce ==
    proc.state # "none" =>
        /\ Len(SelectSeq(proc.args, IsFromFlag)) = 1
        /\ Len(SelectSeq(proc.args, IsToFlag)) = 1
        /\ Len(SelectSeq(proc.args, IsMathjaxFlag)) <= 1

\* ------------------------------------------- the pure helpers on their own
\* All strings of at most n tokens of an alphabet.
Strings(alphabet, n) == UNION {[1..k -> alphabet] : k \in 0..n}

MarkdownChars == {"a", "b", " ", "\n"}
HtmlTokens == {"<div>", "</div>", " ", "ce", "sc", "text"}

\* What the next pass of the function is applied to: the argument, then the
\* result of the pass before.
PassInput == IF pure.n = 0 THEN pure.arg ELSE pure.out

\* postProcessPandocMarkdown is called on the argument, and again on its result.
PostProcessPass ==
    /\ pure.fn \in {"none", "postProcessPandocMarkdown"}
    /\ pure.n < MaxPasses
    /\ pure' = [pure EXCEPT !.fn = "postProcessPandocMarkdown",
                            !.prev = PassInput,
                            !.out = postProcessPandocMarkdown(PassInput),
                            !.n = @ + 1]
    /\ UNCHANGED <<editorVars, engineVars, configVars, instanceVars>>

InitPostClean ==
    /\ editorOf = [d \in Docs |-> "none"]
    /\ InitCommon
    /\ \E markdown \in Strings(MarkdownChars, MaxMarkdownLen) :
           pure = [NoPure EXCEPT !.arg = markdown]

NextPostClean == PostProcessPass

SpecPostClean == InitPostClean /\ [][NextPostClean]_vars

\* cleanIncomingHtml is called on the argument, and again on its result.
CleanIncomingPass ==
    /\ pure.fn \in {"none", "cleanIncomingHtml"}
    /\ pure.n < MaxPasses
    /\ pure' = [pure EXCEPT !.fn = "cleanIncomingHtml",
                            !.prev = PassInput,
                            !.out = cleanIncomingHtml(PassInput),
                            !.n = @ + 1]
    /\ UNCHANGED <<editorVars, engineVars, configVars, instanceVars>>

InitPreClean ==
    /\ editorOf = [d \in Docs |-> "none"]
    /\ InitCommon
    /\ \E html \in Strings(HtmlTokens, MaxHtmlLen) : pure = [NoPure EXCEPT !.arg = html]

NextPreClean == CleanIncomingPass

SpecPreClean == InitPreClean /\ [][NextPreClean]_vars

\* The lengths of the maximal runs of newlines of s, in order.
RECURSIVE NewlineRuns(_)
NewlineRuns(s) ==
    IF s = <<>> THEN <<>>
    ELSE IF Head(s) = "\n"
         THEN <<NewlineRun(s, 1)>> \o NewlineRuns(SubSeq(s, NewlineRun(s, 1) + 1, Len(s)))
         ELSE NewlineRuns(Tail(s))

NotSpace(x) == ~IsSpace(x)
NotNewline(x) == x # "\n"

\* t is s with some tokens deleted.
RECURSIVE IsSubseq(_, _)
IsSubseq(t, s) ==
    IF t = <<>> THEN TRUE
    ELSE IF s = <<>> THEN FALSE
    ELSE IF Head(t) = Head(s) THEN IsSubseq(Tail(t), Tail(s))
    ELSE IsSubseq(t, Tail(s))

PostCleaned == pure.fn = "postProcessPandocMarkdown" /\ pure.n >= 1

\* C25: the output of postProcessPandocMarkdown has no run of three or more
\* newlines and no leading or trailing whitespace; every run of three or
\* more newlines inside the text has become exactly two, shorter runs are
\* kept, and 'a\n\n\n\n\nb' becomes 'a\n\nb'.
C25_BlankLineCollapse ==
    PostCleaned =>
        /\ \A i \in 1..Len(pure.out) : NewlineRun(pure.out, i) < 3
        /\ pure.out # <<>> => ~IsSpace(pure.out[1]) /\ ~IsSpace(pure.out[Len(pure.out)])
        /\ LET runs == NewlineRuns(Trim(pure.prev))
           IN NewlineRuns(pure.out) = [i \in DOMAIN runs |-> IF runs[i] >= 3 THEN 2 ELSE runs[i]]
        /\ pure.prev = <<"a", "\n", "\n", "\n", "\n", "\n", "b">>
              => pure.out = <<"a", "\n", "\n", "b">>

C25_Witness ==
    /\ PostCleaned
    /\ pure.prev = <<"a", "\n", "\n", "\n", "\n", "\n", "b">>
    /\ pure.out = <<"a", "\n", "\n", "b">>

\* C26: cleanIncomingHtml applied to its own output returns that output.
C26_PreCleanIdempotent ==
    (pure.fn = "cleanIncomingHtml" /\ pure.n >= 2) => pure.out = pure.prev

\* C27: postProcessPandocMarkdown applied to its own output returns that
\* output.
C27_PostCleanIdempotent ==
    (pure.fn = "postProcessPandocMarkdown" /\ pure.n >= 2) => pure.out = pure.prev

C27_Witness ==
    /\ pure.fn = "postProcessPandocMarkdown"
    /\ pure.n = 2
    /\ pure.arg = <<" ", "a", "\n", "\n", "\n", "\n", "b">>
    /\ pure.prev = <<"a", "\n", "\n", "b">>
    /\ pure.out = pure.prev

\* C28: postProcessPandocMarkdown only deletes: its output is its input with
\* tokens deleted, the tokens that are not whitespace are the same in the
\* same order, and the spaces and tabs inside the text are kept.
C28_PostCleanConservative ==
    PostCleaned =>
        /\ IsSubseq(pure.out, pure.prev)
        /\ SelectSeq(pure.out, NotSpace) = SelectSeq(pure.prev, NotSpace)
        /\ SelectSeq(pure.out, NotNewline) = SelectSeq(Trim(pure.prev), NotNewline)

C28_Witness ==
    /\ PostCleaned
    /\ pure.prev = <<"\n", "a", " ", " ", " ", "b", " ">>
    /\ pure.out = <<"a", " ", " ", " ", "b">>

\* ------------------------------------------- recoverMarkdownFromCorrupted
\* The text is a sequence of tokens: the entity '&nbsp;' is the token "&nb"
\* followed by the token "sp;", so that removing a tag between the two can
\* put an entity together.
MaxRecoverLen == 4   \* the longest argument of recoverMarkdownFromCorrupted
RecoverTokens == {"<", ">", "/", "div", "td", "em", "a", "&nb", "sp;", " ", "\t", "\n"}
BlockNames == {"div"}
CellNames == {"td"}
InlineNames == {"em"}

\* s.indexOf(c, k): the first position of c in s at or after k, 0 for none.
RECURSIVE FirstIndex(_, _, _)
FirstIndex(s, c, k) ==
    IF k > Len(s) THEN 0
    ELSE IF s[k] = c THEN k
    ELSE FirstIndex(s, c, k + 1)

\* /<\/?(names)[^>]*>/ at position i: the position of the closing ">" of the
\* match, 0 when the pattern does not match there.
NamedTagEnd(s, i, names) ==
    IF s[i] # "<" THEN 0
    ELSE IF i + 1 <= Len(s) /\ s[i + 1] \in names THEN FirstIndex(s, ">", i + 2)
    ELSE IF i + 2 <= Len(s) /\ s[i + 1] = "/" /\ s[i + 2] \in names THEN FirstIndex(s, ">", i + 3)
    ELSE 0

\* output.replace(/<\/?(names)[^>]*>/g, with), from position i on.
RECURSIVE ReplaceNamedTags(_, _, _, _)
ReplaceNamedTags(s, names, with, i) ==
    IF i > Len(s) THEN <<>>
    ELSE IF NamedTagEnd(s, i, names) # 0
         THEN with \o ReplaceNamedTags(s, names, with, NamedTagEnd(s, i, names) + 1)
         ELSE <<s[i]>> \o ReplaceNamedTags(s, names, with, i + 1)

\* /<[^>]+>/ at position i: the position of the closing ">", 0 for no match.
AnyTagEnd(s, i) ==
    IF s[i] = "<" /\ i + 1 <= Len(s) /\ s[i + 1] # ">" THEN FirstIndex(s, ">", i + 2) ELSE 0

\* output.replace(/<[^>]+>/g, ''), from position i on.
RECURSIVE RemoveAnyTags(_, _)
RemoveAnyTags(s, i) ==
    IF i > Len(s) THEN <<>>
    ELSE IF AnyTagEnd(s, i) # 0
         THEN RemoveAnyTags(s, AnyTagEnd(s, i) + 1)
         ELSE <<s[i]>> \o RemoveAnyTags(s, i + 1)

\* output.replace(/&nbsp;/g, ' '), from position i on.
RECURSIVE DecodeNbsp(_, _)
DecodeNbsp(s, i) ==
    IF i > Len(s) THEN <<>>
    ELSE IF i + 1 <= Len(s) /\ s[i] = "&nb" /\ s[i + 1] = "sp;"
         THEN <<" ">> \o DecodeNbsp(s, i + 2)
         ELSE <<s[i]>> \o DecodeNbsp(s, i + 1)

\* The end of the run of c that starts at position i of s.
RECURSIVE RunEnd(_, _, _)
RunEnd(s, c, i) ==
    IF i + 1 <= Len(s) /\ s[i + 1] = c THEN RunEnd(s, c, i + 1) ELSE i

\* output.replace(/c{min,}/g, with), from position i on.
RECURSIVE ReplaceRuns(_, _, _, _, _)
ReplaceRuns(s, c, min, with, i) ==
    IF i > Len(s) THEN <<>>
    ELSE IF s[i] = c /\ RunEnd(s, c, i) - i + 1 >= min
         THEN <<with>> \o ReplaceRuns(s, c, min, with, RunEnd(s, c, i) + 1)
         ELSE <<s[i]>> \o ReplaceRuns(s, c, min, with, i + 1)

\* output.split('\n'): the lines of s, one more than its newlines.
RECURSIVE SplitLines(_)
SplitLines(s) ==
    IF FirstIndex(s, "\n", 1) = 0 THEN <<s>>
    ELSE <<SubSeq(s, 1, FirstIndex(s, "\n", 1) - 1)>>
             \o SplitLines(SubSeq(s, FirstIndex(s, "\n", 1) + 1, Len(s)))

\* lines.join('\n')
RECURSIVE JoinLines(_)
JoinLines(lines) ==
    IF lines = <<>> THEN <<>>
    ELSE IF Len(lines) = 1 THEN lines[1]
    ELSE lines[1] \o <<"\n">> \o JoinLines(Tail(lines))

NonEmpty(line) == line # <<>>

\* .split('\n').map(line => line.trim()).filter(Boolean).join('\n')
TrimLines(s) ==
    JoinLines(SelectSeq([i \in DOMAIN SplitLines(s) |-> Trim(SplitLines(s)[i])], NonEmpty))

\* The recovery pass without its last step.
recoverMarkdownFromCorrupted_noTrim(input) ==
    LET blocks == ReplaceNamedTags(input, BlockNames, <<"\n">>, 1)
        cells == ReplaceNamedTags(blocks, CellNames, <<"\t">>, 1)
        inline == ReplaceNamedTags(cells, InlineNames, <<>>, 1)
        stripped == RemoveAnyTags(inline, 1)
        decoded == DecodeNbsp(stripped, 1)
        collapsed == ReplaceRuns(decoded, "\n", 2, "\n", 1)
    IN ReplaceRuns(collapsed, "\t", 1, " ", 1)

recoverMarkdownFromCorrupted(input) ==
    LET blocks == ReplaceNamedTags(input, BlockNames, <<"\n">>, 1)
        cells == ReplaceNamedTags(blocks, CellNames, <<"\t">>, 1)
        inline == ReplaceNamedTags(cells, InlineNames, <<>>, 1)
        stripped == RemoveAnyTags(inline, 1)
        decoded == DecodeNbsp(stripped, 1)
        collapsed == ReplaceRuns(decoded, "\n", 2, "\n", 1)
        spaced == ReplaceRuns(collapsed, "\t", 1, " ", 1)
    IN TrimLines(spaced)

\* recoverMarkdownFromCorrupted is called on the argument.
RecoverCall ==
    /\ pure.fn = "none"
    /\ pure' = [pure EXCEPT !.fn = "recoverMarkdownFromCorrupted",
                            !.prev = pure.arg,
                            !.out = recoverMarkdownFromCorrupted(pure.arg),
                            !.n = 1]
    /\ UNCHANGED <<editorVars, engineVars, configVars, instanceVars>>

InitRecover ==
    /\ editorOf = [d \in Docs |-> "none"]
    /\ InitCommon
    /\ \E input \in Strings(RecoverTokens, MaxRecoverLen) : pure = [NoPure EXCEPT !.arg = input]

NextRecover == RecoverCall

SpecRecover == InitRecover /\ [][NextRecover]_vars

Recovered == pure.fn = "recoverMarkdownFromCorrupted" /\ pure.n = 1

\* The text has the entity '&nbsp;' somewhere.
HasNbsp(s) == \E i \in 1..(Len(s) - 1) : s[i] = "&nb" /\ s[i + 1] = "sp;"

\* C31: for every input, the output of recoverMarkdownFromCorrupted has no
\* tag ('<', one or more characters other than '>', '>'), no tab, no empty
\* line and no line with leading or trailing whitespace (the empty output
\* has no line), and no '&nbsp;' is left: 'a&nbsp;a' becomes 'a a'.
C31_RecoverShape ==
    Recovered =>
        /\ \A i \in 1..Len(pure.out) : AnyTagEnd(pure.out, i) = 0
        /\ \A i \in 1..Len(pure.out) : pure.out[i] # "\t"
        /\ pure.out # <<>> =>
               \A i \in DOMAIN SplitLines(pure.out) :
                   /\ SplitLines(pure.out)[i] # <<>>
                   /\ ~IsSpace(Head(SplitLines(pure.out)[i]))
                   /\ ~IsSpace(SplitLines(pure.out)[i][Len(SplitLines(pure.out)[i])])
        /\ ~HasNbsp(pure.out)
        /\ pure.arg = <<"a", "&nb", "sp;", "a">> => pure.out = <<"a", " ", "a">>

\* A word followed by a cell tag: the tag becomes a tab, the tab a space, and
\* the space is trimmed away.
C31_Witness ==
    /\ Recovered
    /\ pure.arg = <<"a", "<", "td", ">">>
    /\ pure.out = <<"a">>

\* buildPandocArgs is called on the argument, with the configuration of the
\* moment.
BuildArgsCall ==
    /\ pure.fn = "none"
    /\ pure' = [pure EXCEPT !.fn = "buildPandocArgs",
                            !.out = buildPandocArgs(pure.arg.from, pure.arg.to,
                                                    pure.arg.options),
                            !.n = 1]
    /\ UNCHANGED <<editorVars, engineVars, configVars, instanceVars>>

\* The updates that set the additional arguments.
ArgUpdates == {updates \in Updates : "additionalArgs" \in DOMAIN updates}

InitArgs ==
    /\ editorOf = [d \in Docs |-> "none"]
    /\ InitCommon
    /\ \E from \in Formats, to \in Formats, options \in Options :
           pure = [NoPure EXCEPT !.arg = [from |-> from, to |-> to, options |-> options]]

NextArgs ==
    \/ \E updates \in ArgUpdates : UpdateConfig(updates)
    \/ BuildArgsCall

SpecArgs == InitArgs /\ [][NextArgs]_vars

Bit(b) == IF b THEN 1 ELSE 0

\* C29: buildPandocArgs(from, to, options) returns --from=<from>, --to=<to>,
\* then --mathjax iff the math option is set, --standalone iff the
\* standalone option is set, --template=<t> iff a template is set, one
\* --filter=<f> per filter in the given order, one -V<key>=<value> per
\* variable, then the configured additional arguments in order, and nothing
\* else.
C29_GenericArgs ==
    [][(pure.fn = "none" /\ pure'.fn = "buildPandocArgs") =>
          LET o == pure.arg.options
              args == pure'.out
              extra == config["additionalArgs"].val
              atStandalone == 3 + Bit(o.mathjax)
              atTemplate == atStandalone + Bit(o.standalone)
              atFilters == atTemplate + Bit(o.template # "")
              atVariables == atFilters + Len(o.filters)
              atExtra == atVariables + Len(o.variables)
          IN /\ Len(args) = atExtra + Len(extra) - 1
             /\ args[1] = "--from=" \o pure.arg.from
             /\ args[2] = "--to=" \o pure.arg.to
             /\ o.mathjax => args[3] = "--mathjax"
             /\ o.standalone => args[atStandalone] = "--standalone"
             /\ o.template # "" => args[atTemplate] = "--template=" \o o.template
             /\ \A i \in 1..Len(o.filters) :
                   args[atFilters + i - 1] = "--filter=" \o o.filters[i]
             /\ \A i \in 1..Len(o.variables) :
                   args[atVariables + i - 1]
                      = "-V" \o o.variables[i][1] \o "=" \o o.variables[i][2]
             /\ \A i \in 1..Len(extra) : args[atExtra + i - 1] = extra[i]]_vars

C29_Witness ==
    /\ pure.fn = "buildPandocArgs"
    /\ pure.out = <<"--from=markdown", "--to=latex", "--mathjax", "--standalone",
                    "--template=t.html", "--filter=f2", "--filter=f1", "-Vk1=v1", "-Vk2=v2",
                    "--toc", "--number-sections">>

\* The PandocHandler with its callers, among them callers of updateConfig.
RaceUpdates ==
    {[additionalArgs |-> Arr(<<"--toc">>)], [prettierOptions |-> Obj([tabWidth |-> Str("4")])]}

InitRace ==
    /\ editorOf = [d \in Docs |-> "none"]
    /\ InitCommon
    /\ pure = NoPure

NextRace ==
    \/ NextHandler
    \/ \E updates \in RaceUpdates : UpdateConfig(updates)

SpecRace == InitRace /\ [][NextRace]_vars

\* C30: an updateConfig applied after a conversion call has built its
\* arguments changes neither the arguments the engine is invoked with nor any
\* other step of that call that depends on the configuration: the options
\* the formatter is given are those of the configuration the arguments were
\* built with.
C30_UpdateAfterArgs ==
    [][/\ (config' # config /\ call.pc # "none") => proc'.args = proc.args
       /\ (call.pc = "exec" /\ call'.pc = "prettier") =>
              log'[Len(log')].args = prettierOptions(call.built)]_vars

\* The configuration of the handler under any sequence of updates.
InitConfig ==
    /\ editorOf = [d \in Docs |-> "none"]
    /\ InitCommon
    /\ pure = NoPure

NextConfig == \E updates \in Updates : UpdateConfig(updates)

SpecConfig == InitConfig /\ [][NextConfig]_vars

\* An updateConfig call has run.
ConfigUpdated == config' # config \/ lastUpdate' # lastUpdate

\* C24: updateConfig(u) changes exactly the fields present in u: a
\* top-level field absent from u keeps its value; a nested record present in
\* u is merged key by key, its keys absent from u keeping their values; a
\* scalar or array present in u is replaced by the value of u.
C24_MergeFrame ==
    [][ConfigUpdated =>
          LET u == lastUpdate'
          IN /\ DOMAIN config' = DOMAIN config \cup DOMAIN u
             /\ \A key \in DOMAIN config \ DOMAIN u : config'[key] = config[key]
             /\ \A key \in DOMAIN u :
                   IF u[key].kind = "object"
                   THEN /\ config'[key].kind = "object"
                        /\ DOMAIN config'[key].val
                              = DOMAIN config[key].val \cup DOMAIN u[key].val
                        /\ \A n \in DOMAIN config'[key].val :
                              config'[key].val[n] = IF n \in DOMAIN u[key].val
                                                    THEN u[key].val[n]
                                                    ELSE config[key].val[n]
                   ELSE config'[key] = u[key]]_vars

C24_Witness ==
    /\ lastUpdate = [citationStyle |-> Str("chicago")]
    /\ config["citationStyle"] = Str("chicago")
    /\ config["additionalArgs"] = Arr(<<"--toc">>)
    /\ config["prettierOptions"].val
          = [parser |-> Str("markdown"), proseWrap |-> Str("always"), tabWidth |-> Str("4")]

\* ------------------------------------------------ the handler's lifetime
\* The handler from before the first getInstance call: it is obtained,
\* initialized, configured, used for conversions and disposed of.
InitLifecycle ==
    /\ editorOf = [d \in Docs |-> "none"]
    /\ InitEditors
    /\ InitHandlerFields
    /\ instance = 0
    /\ returned = <<>>
    /\ pure = NoPure

NextLifecycle ==
    \/ \E l \in Loggers \cup {NoLogger} : GetInstance(l)
    \/ InitializeStart
    \/ \E available \in BOOLEAN : InitializeDone(available)
    \/ Dispose
    \/ instance # 0 /\ UpdateConfig([citationStyle |-> Str("apa")])
    \/ \E markdown \in MarkdownInputs : CallConvertMarkdownToHtml(markdown, NoOptions)
    \/ ProcSpawned
    \/ ProcError
    \/ \E chunk \in OutChunks : StdoutData(chunk)
    \/ \E code \in {Some(0), Some(1)} : ProcClose(code)
    \/ ExecSettled

SpecLifecycle == InitLifecycle /\ [][NextLifecycle]_vars

\* A getInstance call returns in this step.
GotInstance == Len(returned') = Len(returned) + 1

\* C32: every getInstance call returns the handler the first call returned;
\* a call on an existing handler leaves its configuration, readiness flag
\* and temporary directory as they are, and changes the logger only when a
\* logger is given, to that logger.
C32_Singleton ==
    [][GotInstance =>
          LET got == returned'[Len(returned')]
          IN /\ got.handler = instance'
             /\ got.handler = returned'[1].handler
             /\ instance # 0 =>
                    /\ instance' = instance
                    /\ config' = config
                    /\ isReady' = isReady
                    /\ tempDir' = tempDir
                    /\ logger' = IF got.logger = NoLogger THEN logger ELSE got.logger]_vars

\* The handler was initialized and configured, then obtained again with
\* another logger.
C32_Witness ==
    /\ Len(returned) = 2
    /\ returned[1].handler = returned[2].handler
    /\ returned[1].logger = NoLogger
    /\ returned[2].logger = "logger2"
    /\ logger = "logger2"
    /\ isReady
    /\ tempDir # 0
    /\ config # DefaultConfig

\* C39: the engine is spawned only while the directory of tempDir exists: a
\* conversion called when the directory is gone is rejected and spawns
\* nothing, and when an initialize() has found the engine the directory of
\* tempDir is the one temporary directory there is.
C39_SpawnInLiveDir ==
    [][/\ nSpawned' = nSpawned + 1 => proc'.cwd \in liveDirs'
       /\ (call.pc = "none" /\ call'.pc # "none" /\ tempDir \notin liveDirs) =>
              nSpawned' = nSpawned /\ promise'.state = "rejected"
       /\ (initPc = "checking" /\ initPc' = "available") => liveDirs' = {tempDir'}]_vars

\* Two documents open in V0 editors of the one registered provider; nothing
\* but the two editors changes the documents.
InitTwoDocs ==
    /\ editorOf = [d \in Docs |-> "V0"]
    /\ InitCommon
    /\ pure = NoPure

NextTwoDocs ==
    \/ \E d \in Docs, c \in Contents : Input(d, c)
    \/ \E d \in Docs, id \in TimerIds : TimerFire(d, id)
    \/ \E d \in Docs : HandleSave(d)
    \/ \E t \in TaskIds : ConvertOk(t)
    \/ \E t \in TaskIds : ConvertFail(t)
    \/ \E t \in TaskIds, ok \in BOOLEAN : MainApplyEdit(t, ok)
    \/ \E t \in TaskIds, ok \in BOOLEAN : MainSave(t, ok)
    \/ HostChanged
    \/ HostApplyReply
    \/ HostSaveReply

SpecTwoDocs == InitTwoDocs /\ [][NextTwoDocs]_vars

\* The refreshes of V0 editors on their own: the documents are changed from
\* outside, every change notification starts an updateWebview, and the
\* engine answers the conversions in any order.
InitRefresh ==
    /\ editorOf = [d \in Docs |-> "V0"]
    /\ InitCommon
    /\ pure = NoPure

NextRefresh ==
    \/ \E d \in Docs, c \in Contents : ExternalChange(d, c)
    \/ HostChanged
    \/ \E d \in Docs : \E r \in refreshes[d] : RefreshDone(d, r)
    \/ \E d \in Docs : \E r \in refreshes[d] : RefreshFail(d, r)

SpecRefresh == InitRefresh /\ [][NextRefresh]_vars

\* Every change notification of document d has been handled and every
\* refresh it started has completed with a rendering.
RefreshesCompleted(d) ==
    /\ refreshes[d] = {}
    /\ \A i \in DOMAIN fromMain : fromMain[i].doc # d
    /\ errorMessages = {}

\* C35: once all the overlapping refreshes of a document have completed, the
\* webview shows the HTML converted from the latest text of the document.
C35_RefreshOrdering ==
    \A d \in Docs :
        (RefreshesCompleted(d) /\ docText[d] # Md(0))
        => editorInnerHTML[d] = convertMarkdownToHtml(docText[d])

\* Time passes, up to the moment the armed timer is due.
Tick ==
    /\ now + TickMs <= MaxTimeMs
    /\ \A d \in Docs : timers[d] # {} => now + TickMs <= due[d]
    /\ now' = now + TickMs
    /\ UNCHANGED <<editorOf, engineVars, configVars, instanceVars, pure, webviewVars, due, runStart, docVars, hostVars, brokerVars, toHost,
                   fromMain>>

\* The setTimeout callback runs when its delay has passed.
TimedFire(d, id) ==
    /\ now = due[d]
    /\ TimerFire(d, id)

InitTimed ==
    /\ editorOf = [d \in Docs |-> IF d = "A" THEN "V0" ELSE "none"]
    /\ InitCommon
    /\ pure = NoPure

NextTimed ==
    \/ Tick
    \/ \E d \in Docs, c \in Contents : Input(d, c)
    \/ \E d \in Docs, id \in TimerIds : TimedFire(d, id)

\* The V0 webview script with the time of its timers.
SpecTimed == InitTimed /\ [][NextTimed]_vars

\* The FileBroker alone, with save requests arriving at any time.
InitBroker ==
    /\ editorOf = [d \in Docs |-> IF d = "A" THEN "broker" ELSE "none"]
    /\ InitCommon
    /\ pure = NoPure

NextBroker ==
    \/ \E d \in Docs, c \in Contents : SaveFileCall(d, c)
    \/ \E d \in Docs, ok \in BOOLEAN : BrokerConvert(d, ok)
    \/ \E d \in Docs, ok \in BOOLEAN : BrokerBackup(d, ok)
    \/ \E d \in Docs : BrokerPrune(d)
    \/ \E d \in Docs, ok \in BOOLEAN : BrokerOverwrite(d, ok)

SpecBroker == InitBroker /\ [][NextBroker]_vars
====
